---- MODULE Spec2Model ----
(***************************************************************************)
(* Raliux Guardian: the risk analysis and gating engine.                   *)
(*                                                                         *)
(*   IPAnalyzer   (services/ip-analyzer)   collectors, score, decision      *)
(*   TorService   (services/tor-service)   Tor exit node snapshot          *)
(*   CacheService (services/cache-service) node-cache wrapper, TTL 300 s   *)
(*   LogService   (services/log-service)   request log, buffer and files   *)
(*   GuardianMiddleware (middleware/guardian.js) cache-aside gate          *)
(*                                                                         *)
(* Time is Date.now() in milliseconds.  JavaScript null/undefined fields   *)
(* are fields that are absent from a record (details, checks).             *)
(***************************************************************************)
EXTENDS Integers, Sequences, FiniteSets, TLC

VARIABLES
    call,           \* SpecAnalyzer, SpecBulk: the arguments of the call and its collectors' outcomes
    result,         \* SpecAnalyzer, SpecBulk: what the call returned
    now,            \* Date.now()
    env,            \* process.env: BLOCK_VPN_TOR, STRICT_MODE, IPAPI_KEY, ABUSEIPDB_KEY
    torExitNodes,   \* TorService.torExitNodes
    lastUpdate,     \* TorService.lastUpdate
    cache,          \* CacheService.cache (node-cache): key -> [v, t] or NoEntry
    req,            \* the requests handled by GuardianMiddleware.analyze
    analyses,       \* number of analyzeIP calls made by the middleware
    torLookups,     \* number of torService.isTorExitNode calls made
    epoch,          \* number of changes made to the policy and to the Tor set
    torCall,        \* SpecTor: the isTorExitNode and updateTorExitNodes calls made
    published,      \* SpecTor: the Tor set as the last completed write left it
    requestLogs,    \* LogService.requestLogs, the in-memory buffer
    logDir,         \* the files requests-<day>.json of LogService.logDir, by day
    logCall,        \* SpecLog: the last LogService call and what it did
    clientCache,    \* SpecClient: the integration middleware's cache (a Map)
    clientStats,    \* SpecClient: the integration middleware's stats
    clientReq,      \* SpecClient: the requests the integration middleware handles
    vpnRanges,      \* IPAnalyzer.vpnRanges
    breaker,        \* SpecBreaker: a circuit breaker made by createCircuitBreaker
    breakerCall,    \* SpecBreaker: the execute calls made on it
    rateLimiters,   \* SpecRate: MultiTenantManager.rateLimiters, by tenant
    rateCall        \* SpecRate: the checkRateLimit calls made and the last one's answer

vars == <<call, result, now, env, torExitNodes, lastUpdate, cache, req, analyses, torLookups, epoch,
          torCall, published, requestLogs, logDir, logCall,
          clientCache, clientStats, clientReq, vpnRanges, breaker, breakerCall,
          rateLimiters, rateCall>>

\* the enterprise modules (error handler, tenant manager) are not part of the gate
EnterpriseUnused ==
    breaker = <<>> /\ breakerCall = <<>> /\ rateLimiters = <<>> /\ rateCall = <<>>

----------------------------------------------------------------------------
(* Values *)

Null == "null"

\* no analysis yet
NoResult == [ip |-> Null]

\* the addresses requests come from; the first is one of TorService's hardcoded exit nodes
IPs == {"185.220.101.1", "36.110.0.9", "10.0.0.5"}

\* user-agent header values; "" is a request without the header
UserAgents == {"", "curl/7.0", "python-requests/2.31.0",
               "mozilla/5.0 (x11; linux x86_64) firefox/121.0"}

\* geoip-lite's local database: lookup(ip) is null for an address it does not hold
GeoDB(ip) ==
    CASE ip = "185.220.101.1" -> [found |-> TRUE, country |-> "DE", region |-> "BE", city |-> "Berlin", timezone |-> "Europe/Berlin"]
      [] ip = "36.110.0.9"    -> [found |-> TRUE, country |-> "CN", region |-> "BJ", city |-> "Beijing", timezone |-> "Asia/Shanghai"]
      [] OTHER                -> [found |-> FALSE, country |-> "", region |-> "", city |-> "", timezone |-> ""]

\* ua-parser-js: the browser name it reports ("undefined" when it recognises none)
UAParser(userAgent) ==
    CASE userAgent = "mozilla/5.0 (x11; linux x86_64) firefox/121.0" -> [browser |-> "Firefox", os |-> "Linux"]
      [] OTHER -> [browser |-> "undefined", os |-> "undefined"]

\* pattern.test(userAgent) for an unanchored pattern: substring search
\* (the patterns carry the i flag; the sample user agents are lower case)
Contains(s, p) == \E i \in 1..(Len(s) - Len(p) + 1) : SubSeq(s, i, i + Len(p) - 1) = p

botPatterns == {"bot", "crawler", "spider", "scraper", "curl", "wget", "python", "java"}

riskyCountries == {"CN", "RU", "KP", "IR"}

Min(a, b) == IF a < b THEN a ELSE b

\* object property assignment: d.k = v
Put(d, k, v) == [f \in DOMAIN d \cup {k} |-> IF f = k THEN v ELSE d[f]]

\* the empty object {}
EmptyObject == [f \in {} |-> TRUE]

\* JavaScript truthiness of d.k for a boolean or absent property
Truthy(d, k) == k \in DOMAIN d /\ d[k] = TRUE

----------------------------------------------------------------------------
(* IPAnalyzer *)

\* axios.get(ip-api.com ...) outcomes: rejected (timeout 3 s, network error),
\* resolved with an empty body, resolved with {proxy, hosting}
VpnResponses ==
    {[status |-> "error", proxy |-> FALSE, hosting |-> FALSE],
     [status |-> "empty", proxy |-> FALSE, hosting |-> FALSE]}
    \cup {[status |-> "ok", proxy |-> p, hosting |-> h] : p \in BOOLEAN, h \in BOOLEAN}

\* abuseConfidencePercentage values the reputation API returns
Confidences == {0, 25, 26, 50, 51, 90, 100}

\* axios.get(api.abuseipdb.com ...) outcomes: rejected (timeout 5 s, network error),
\* resolved without data.data, resolved with {abuseConfidencePercentage, isWhitelisted}
ReputationResponses ==
    {[status |-> "error", abuseConfidencePercentage |-> 0, isWhitelisted |-> FALSE],
     [status |-> "empty", abuseConfidencePercentage |-> 0, isWhitelisted |-> FALSE]}
    \cup {[status |-> "ok", abuseConfidencePercentage |-> c, isWhitelisted |-> FALSE] : c \in Confidences}

Envs == [BLOCK_VPN_TOR : {"true", "false"}, STRICT_MODE : {"true", "false"},
         IPAPI_KEY : {"", "k1"}, ABUSEIPDB_KEY : {"", "k2"}]

NewAnalysis(ip) ==
    [ip |-> ip, isBlocked |-> FALSE, reason |-> Null, riskScore |-> 0,
     details |-> EmptyObject,
     checks |-> [geoip |-> FALSE, tor |-> FALSE, vpn |-> FALSE, userAgent |-> FALSE, reputation |-> FALSE]]

AddRisk(analysis, n) == [analysis EXCEPT !.riskScore = @ + n]
SetDetail(analysis, k, v) == [analysis EXCEPT !.details = Put(@, k, v)]
SetCheck(analysis, k) == [analysis EXCEPT !.checks[k] = TRUE]

analyzeGeoIP(ip, analysis) ==
    LET geo == GeoDB(ip) IN
    IF geo.found
    THEN LET a1 == SetCheck(SetDetail(SetDetail(SetDetail(SetDetail(analysis,
                       "country", geo.country), "region", geo.region), "city", geo.city),
                       "timezone", geo.timezone), "geoip")
         IN IF geo.country \in riskyCountries
            THEN SetDetail(AddRisk(a1, 30), "riskyCountry", TRUE)
            ELSE a1
    ELSE analysis

\* isTor is what torService.isTorExitNode(ip) answered
checkTorExitNodeUngated(e, isTor, analysis) ==
    LET a1 == SetCheck(SetDetail(analysis, "isTor", isTor), "tor") IN
    IF isTor
    THEN SetDetail(AddRisk(a1, 80), "torBlocked", TRUE)
    ELSE a1

checkTorExitNode(e, isTor, analysis) ==
    LET a1 == SetCheck(SetDetail(analysis, "isTor", isTor), "tor") IN
    IF isTor /\ e.BLOCK_VPN_TOR = "true"
    THEN SetDetail(AddRisk(a1, 80), "torBlocked", TRUE)
    ELSE a1

checkVPNProxyFromRanges(e, vpn, analysis) ==
    LET range == IF analysis.ip = "185.220.101.1" THEN "185.220.101.0/24"
                 ELSE IF analysis.ip = "36.110.0.9" THEN "36.110.0.0/16" ELSE "none"
    IN IF range \in vpnRanges /\ e.BLOCK_VPN_TOR = "true"
       THEN SetDetail(AddRisk(SetCheck(analysis, "vpn"), 60), "vpnBlocked", TRUE)
       ELSE analysis

checkVPNProxyFlagFirst(e, vpn, analysis) ==
    IF e.IPAPI_KEY # ""
    THEN LET a0 == SetCheck(analysis, "vpn") IN
         IF vpn.status = "ok"
         THEN LET a1 == SetDetail(SetDetail(a0, "isProxy", vpn.proxy), "isHosting", vpn.hosting)
              IN IF (vpn.proxy \/ vpn.hosting) /\ e.BLOCK_VPN_TOR = "true"
                 THEN SetDetail(AddRisk(a1, 60), "vpnBlocked", TRUE)
                 ELSE a1
         ELSE a0
    ELSE analysis

checkVPNProxy(e, vpn, analysis) ==
    IF e.IPAPI_KEY # ""
    THEN IF vpn.status = "ok"
         THEN LET a1 == SetCheck(SetDetail(SetDetail(analysis, "isProxy", vpn.proxy),
                                           "isHosting", vpn.hosting), "vpn")
              IN IF (vpn.proxy \/ vpn.hosting) /\ e.BLOCK_VPN_TOR = "true"
                 THEN SetDetail(AddRisk(a1, 60), "vpnBlocked", TRUE)
                 ELSE a1
         ELSE analysis      \* rejected: caught and logged; empty body: nothing to do
    ELSE analysis

analyzeUserAgent(userAgent, analysis) ==
    LET ua == UAParser(userAgent)
        a1 == SetCheck(SetDetail(SetDetail(analysis, "browser", ua.browser), "os", ua.os), "userAgent")
        a2 == IF userAgent = "" \/ Len(userAgent) < 10
              THEN SetDetail(AddRisk(a1, 20), "suspiciousUA", "Empty or too short")
              ELSE a1
    IN IF \E p \in botPatterns : Contains(userAgent, p)
       THEN SetDetail(AddRisk(a2, 15), "possibleBot", TRUE)
       ELSE a2

checkIPReputationUncapped(rep, analysis) ==
    IF rep.status = "ok"
    THEN LET a1 == SetCheck(SetDetail(SetDetail(analysis, "abuseConfidence", rep.abuseConfidencePercentage),
                                      "isWhitelisted", rep.isWhitelisted), "reputation")
         IN IF rep.abuseConfidencePercentage > 25
            THEN SetDetail(AddRisk(a1, rep.abuseConfidencePercentage), "badReputation", TRUE)
            ELSE a1
    ELSE analysis

checkIPReputation(rep, analysis) ==
    IF rep.status = "ok"
    THEN LET a1 == SetCheck(SetDetail(SetDetail(analysis, "abuseConfidence", rep.abuseConfidencePercentage),
                                      "isWhitelisted", rep.isWhitelisted), "reputation")
         IN IF rep.abuseConfidencePercentage > 25
            THEN SetDetail(AddRisk(a1, Min(rep.abuseConfidencePercentage, 50)), "badReputation", TRUE)
            ELSE a1
    ELSE analysis           \* rejected: caught and logged; no data.data: nothing to do

calculateRiskScoreUnclamped(analysis) ==
    SetDetail(analysis, "riskLevel",
              IF analysis.riskScore >= 70 THEN "HIGH"
              ELSE IF analysis.riskScore >= 40 THEN "MEDIUM" ELSE "LOW")

calculateRiskScore(analysis) ==
    LET a1 == [analysis EXCEPT !.riskScore = Min(@, 100)] IN
    SetDetail(a1, "riskLevel",
              IF a1.riskScore >= 70 THEN "HIGH"
              ELSE IF a1.riskScore >= 40 THEN "MEDIUM" ELSE "LOW")

AssignReasonReputationFirst(analysis) ==
    IF Truthy(analysis.details, "badReputation") THEN "BAD_IP_REPUTATION"
    ELSE IF Truthy(analysis.details, "isTor") THEN "TOR_EXIT_NODE"
    ELSE IF Truthy(analysis.details, "vpnBlocked") THEN "VPN_PROXY_DETECTED"
    ELSE "HIGH_RISK_SCORE"

AssignReason(analysis) ==
    IF Truthy(analysis.details, "isTor") THEN "TOR_EXIT_NODE"
    ELSE IF Truthy(analysis.details, "vpnBlocked") THEN "VPN_PROXY_DETECTED"
    ELSE IF Truthy(analysis.details, "badReputation") THEN "BAD_IP_REPUTATION"
    ELSE "HIGH_RISK_SCORE"

makeBlockDecisionSwappedThreshold(e, analysis) ==
    LET threshold == IF e.STRICT_MODE = "true" THEN 70 ELSE 40 IN
    IF analysis.riskScore >= threshold
    THEN [analysis EXCEPT !.isBlocked = TRUE, !.reason = AssignReason(analysis)]
    ELSE analysis

makeBlockDecisionVpnFirst(e, analysis) ==
    LET threshold == IF e.STRICT_MODE = "true" THEN 40 ELSE 70 IN
    IF analysis.riskScore >= threshold
    THEN [analysis EXCEPT !.isBlocked = TRUE,
                          !.reason = IF Truthy(analysis.details, "vpnBlocked") THEN "VPN_PROXY_DETECTED"
                                     ELSE AssignReason(analysis)]
    ELSE analysis

makeBlockDecision(e, analysis) ==
    LET threshold == IF e.STRICT_MODE = "true" THEN 40 ELSE 70 IN
    IF analysis.riskScore >= threshold
    THEN [analysis EXCEPT !.isBlocked = TRUE, !.reason = AssignReason(analysis)]
    ELSE analysis

\* the lists of ranges the X4BNet source can return, one to a line
VpnRangeLists == {{"185.220.101.0/24"}, {"185.220.101.0/24", "36.110.0.0/16"}}

\* axios.get of the list: rejected, resolved with an empty body, resolved with a list
VpnRangeResponses ==
    {[status |-> "error", list |-> {}], [status |-> "empty", list |-> {}]}
    \cup {[status |-> "ok", list |-> l] : l \in VpnRangeLists}

\* the set loadVPNRanges leaves: the lines of the body are added; a rejection is
\* caught and logged
loadVPNRanges(ranges, response) ==
    IF response.status = "ok" THEN ranges \cup response.list ELSE ranges

\* the set initialize leaves, from the constructor's empty one
initialize(response) == loadVPNRanges({}, response)

AnalysisErrorFailOpen(ip) ==
    [ip |-> ip, isBlocked |-> FALSE, reason |-> Null, riskScore |-> 0,
     details |-> [error |-> "Analysis failed"]]

\* the catch block of analyzeIP
AnalysisError(ip) ==
    [ip |-> ip, isBlocked |-> TRUE, reason |-> "ANALYSIS_ERROR", riskScore |-> 100,
     details |-> [error |-> "Analysis failed"]]

\* the collectors of analyzeIP in call order, up to the score and the decision
CollectWithoutUserAgent(ip, userAgent, e, isTor, vpn, rep) ==
    LET a1 == analyzeGeoIP(ip, NewAnalysis(ip))
        a2 == checkTorExitNode(e, isTor, a1)
        a3 == checkVPNProxy(e, vpn, a2)
    IN IF e.ABUSEIPDB_KEY # "" THEN checkIPReputation(rep, a3) ELSE a3

Collect(ip, userAgent, e, isTor, vpn, rep) ==
    LET a1 == analyzeGeoIP(ip, NewAnalysis(ip))
        a2 == checkTorExitNode(e, isTor, a1)
        a3 == checkVPNProxy(e, vpn, a2)
        a4 == analyzeUserAgent(userAgent, a3)
    IN IF e.ABUSEIPDB_KEY # "" THEN checkIPReputation(rep, a4) ELSE a4

\* threw: an exception escaped inside the try block (anything a collector's own
\* try/catch did not contain)
analyzeIP(ip, userAgent, e, isTor, vpn, rep, threw) ==
    IF threw
    THEN AnalysisError(ip)
    ELSE makeBlockDecision(e, calculateRiskScore(Collect(ip, userAgent, e, isTor, vpn, rep)))

----------------------------------------------------------------------------
(* TorService *)

updateInterval == 3600000

knownExitNodes == {"199.87.154.255", "104.244.76.13", "185.220.101.1",
                   "199.195.249.84", "185.220.100.240"}

\* the exit node lists a remote source can return (after split, trim and filter)
TorLists == {{}, {"185.220.101.1"}}

\* axios.get of a Tor list: rejected, resolved with an empty body, resolved with a list
TorResponses ==
    {[status |-> "error", list |-> {}], [status |-> "empty", list |-> {}]}
    \cup {[status |-> "ok", list |-> l] : l \in TorLists}

\* the answers the Tor sources give while the gate runs: a list, or a failure
ClientTorResponses == {x \in TorResponses : x.status # "empty"}

\* a TorService state: the set and lastUpdate (0 is the constructor's null)
loadHardcodedExitNodes(tor, t) ==
    [nodes |-> tor.nodes \cup knownExitNodes, lastUpdate |-> t]

loadFallbackExitNodes(tor, t, secondary) ==
    CASE secondary.status = "ok"    -> [nodes |-> tor.nodes \cup secondary.list, lastUpdate |-> t]
      [] secondary.status = "empty" -> tor
      [] OTHER                      -> loadHardcodedExitNodes(tor, t)

updateTorExitNodes(tor, t, primary, secondary) ==
    CASE primary.status = "ok"    -> [nodes |-> primary.list, lastUpdate |-> t]
      [] primary.status = "empty" -> tor
      [] OTHER                    -> loadFallbackExitNodes(tor, t, secondary)

\* whether isTorExitNode refreshes before it answers
TorStaleAtInterval(tor, t) == tor.lastUpdate = 0 \/ t - tor.lastUpdate >= updateInterval

TorStale(tor, t) == tor.lastUpdate = 0 \/ t - tor.lastUpdate > updateInterval

\* the TorService state isTorExitNode leaves; its answer is ip \in that state's nodes
isTorExitNode(tor, t, primary, secondary) ==
    IF TorStale(tor, t) THEN updateTorExitNodes(tor, t, primary, secondary) ELSE tor

----------------------------------------------------------------------------
(* CacheService: node-cache with stdTTL 300, useClones false *)

stdTTL == 300

NoEntry == [present |-> FALSE]

cacheKey(clientIP) == "analysis:" \o clientIP

\* node-cache set(key, value, ttl): the entry lives until t = Date.now() + ttl * 1000;
\* by and epoch record which request wrote it and under which configuration
CacheSetMillis(c, key, value, ttl, t, by, ep) ==
    [c EXCEPT ![key] = [present |-> TRUE, v |-> value, t |-> t + ttl, by |-> by, epoch |-> ep]]

CacheSetIfAbsent(c, key, value, ttl, t, by, ep) ==
    IF c[key].present THEN c
    ELSE [c EXCEPT ![key] = [present |-> TRUE, v |-> value, t |-> t + ttl * 1000, by |-> by, epoch |-> ep]]

CacheSetSkipsErrors(c, key, value, ttl, t, by, ep) ==
    IF value.reason = "ANALYSIS_ERROR" THEN c
    ELSE [c EXCEPT ![key] = [present |-> TRUE, v |-> value, t |-> t + ttl * 1000, by |-> by, epoch |-> ep]]

CacheSet(c, key, value, ttl, t, by, ep) ==
    [c EXCEPT ![key] = [present |-> TRUE, v |-> value, t |-> t + ttl * 1000, by |-> by, epoch |-> ep]]

\* node-cache get(key): an entry is expired, and deleted, when its t < Date.now()
CacheLiveNoExpiry(c, key, t) == c[key].present

CacheLive(c, key, t) == c[key].present /\ ~(c[key].t < t)

CacheAfterGet(c, key, t) ==
    IF c[key].present /\ ~CacheLive(c, key, t) THEN [c EXCEPT ![key] = NoEntry] ELSE c

----------------------------------------------------------------------------
(* LogService *)

maxLogsInMemory == 1000
flushInterval == 30000
DayMs == 24 * 60 * 60 * 1000

\* An array of log entries is a sequence of runs [n, entry]: n consecutive entries
\* alike in every field the service reads.  The entries a request of the model
\* logs are runs of one; the entries logged before are one longer run.

RECURSIVE LogLength(_)
\* array.length
LogLength(logs) == IF logs = <<>> THEN 0 ELSE Head(logs).n + LogLength(Tail(logs))

LogPushTwice(logs, entry) == logs \o <<[n |-> 1, entry |-> entry], [n |-> 1, entry |-> entry]>>

\* array.push(entry)
LogPush(logs, entry) == Append(logs, [n |-> 1, entry |-> entry])

RECURSIVE SliceFirst(_, _)
\* array.slice(0, limit)
SliceFirst(logs, limit) ==
    IF logs = <<>> \/ limit <= 0 THEN <<>>
    ELSE IF Head(logs).n >= limit THEN <<[Head(logs) EXCEPT !.n = limit]>>
    ELSE <<Head(logs)>> \o SliceFirst(Tail(logs), limit - Head(logs).n)

RECURSIVE SliceLast(_, _)
\* array.slice(-limit), limit > 0
SliceLast(logs, limit) ==
    IF logs = <<>> \/ limit <= 0 THEN <<>>
    ELSE LET last == logs[Len(logs)]
             rest == SubSeq(logs, 1, Len(logs) - 1)
         IN IF last.n >= limit THEN <<[last EXCEPT !.n = limit]>>
            ELSE SliceLast(rest, limit - last.n) \o <<last>>

\* new Date() at instant t
Date(t) == [date |-> t]

\* a timestamp is a Date in memory and, read back from a log file, the ISO string
\* JSON.stringify made of it; new Date(timestamp).getTime() is the instant of both
TimeOf(timestamp) == IF "date" \in DOMAIN timestamp THEN timestamp.date ELSE timestamp.iso

\* JSON.parse(JSON.stringify(logs)): Dates become ISO strings, the rest is kept
Stringify(logs) ==
    [i \in 1..Len(logs) |->
        [logs[i] EXCEPT !.entry.timestamp = [iso |-> TimeOf(logs[i].entry.timestamp)]]]

\* new Date().toISOString().split('T')[0]: the UTC day of instant t
today(t) == t \div DayMs

\* requests-<day>.json: absent, or present with text that parses to an array of
\* entries, or present and not to be had as an array: text that holds no entry, or
\* entries written before which the flush cannot read (readFileSync throws) or
\* parse (the end of the text is missing after a write cut short)
NoFile == [exists |-> FALSE, parses |-> FALSE, logs |-> <<>>]
LogFile(logs) == [exists |-> TRUE, parses |-> TRUE, logs |-> logs]
GarbledFile == [exists |-> TRUE, parses |-> FALSE, logs |-> <<>>]
UnreadableFile(logs) == [exists |-> TRUE, parses |-> FALSE, logs |-> logs]

\* the entries read from the day's file: [] when it is absent or does not parse
ReadLogFile(dir, day) == IF dir[day].exists /\ dir[day].parses THEN dir[day].logs ELSE <<>>

flushLogsToDiskClearsOnFailure(logs, dir, t, writable) ==
    IF LogLength(logs) = 0
    THEN [requestLogs |-> logs, logDir |-> dir, flush |-> "empty", warned |-> FALSE, threw |-> FALSE]
    ELSE LET existingLogs == ReadLogFile(dir, today(t))
             warned == dir[today(t)].exists /\ ~dir[today(t)].parses
         IN
         IF writable
         THEN [requestLogs |-> <<>>,
               logDir |-> [dir EXCEPT ![today(t)] = LogFile(existingLogs \o Stringify(logs))],
               flush |-> "written", warned |-> warned, threw |-> FALSE]
         ELSE [requestLogs |-> <<>>, logDir |-> dir, flush |-> "failed", warned |-> warned, threw |-> FALSE]

\* writable: fs.writeFileSync returns (TRUE) or throws (FALSE).  The result is the
\* buffer, the log directory and what the call did: flush is empty (nothing to
\* write), written or failed (the catch of line 94); warned, that the day's file
\* was there and could not be read or parsed (the catch of line 78); threw, that
\* the call threw.
flushLogsToDisk(logs, dir, t, writable) ==
    IF LogLength(logs) = 0
    THEN [requestLogs |-> logs, logDir |-> dir, flush |-> "empty", warned |-> FALSE, threw |-> FALSE]
    ELSE LET existingLogs == ReadLogFile(dir, today(t))
             warned == dir[today(t)].exists /\ ~dir[today(t)].parses
         IN
         IF writable
         THEN [requestLogs |-> <<>>,
               logDir |-> [dir EXCEPT ![today(t)] = LogFile(existingLogs \o Stringify(logs))],
               flush |-> "written", warned |-> warned, threw |-> FALSE]
         ELSE [requestLogs |-> logs, logDir |-> dir, flush |-> "failed", warned |-> warned, threw |-> FALSE]

\* the entry logRequest makes of requestData (method and url, which the service
\* stores and never reads, are left out)
LogEntry(requestData) ==
    [timestamp |-> requestData.timestamp, requestId |-> requestData.requestId,
     ip |-> requestData.ip, userAgent |-> requestData.userAgent,
     analysis |-> requestData.analysis, blocked |-> requestData.analysis.isBlocked,
     riskScore |-> requestData.analysis.riskScore, reason |-> requestData.analysis.reason]

logRequestRethrows(logs, dir, requestData, t, writable) ==
    LET pushed == LogPush(logs, LogEntry(requestData))
        flushed == flushLogsToDisk(pushed, dir, t, writable)
    IN IF LogLength(pushed) >= maxLogsInMemory
       THEN [flushed EXCEPT !.threw = (flushed.flush = "failed")]
       ELSE [requestLogs |-> pushed, logDir |-> dir, flush |-> "none", warned |-> FALSE, threw |-> FALSE]

logRequestFlushAbove(logs, dir, requestData, t, writable) ==
    LET pushed == LogPush(logs, LogEntry(requestData)) IN
    IF LogLength(pushed) > maxLogsInMemory
    THEN flushLogsToDisk(pushed, dir, t, writable)
    ELSE [requestLogs |-> pushed, logDir |-> dir, flush |-> "none", warned |-> FALSE, threw |-> FALSE]

logRequest(logs, dir, requestData, t, writable) ==
    LET pushed == LogPush(logs, LogEntry(requestData)) IN
    IF LogLength(pushed) >= maxLogsInMemory
    THEN flushLogsToDisk(pushed, dir, t, writable)
    ELSE [requestLogs |-> pushed, logDir |-> dir, flush |-> "none", warned |-> FALSE, threw |-> FALSE]

\* the days the log directory has files for
LogDays == {0, 1}

\* an entry logged before the first request of the model: an allowed request of a
\* client the GeoIP database does not hold
BacklogEntry ==
    LogEntry([timestamp |-> Date(1000), requestId |-> 0, ip |-> "10.0.0.5", userAgent |-> "curl/7.0",
              analysis |-> analyzeIP("10.0.0.5", "curl/7.0",
                                     [BLOCK_VPN_TOR |-> "true", STRICT_MODE |-> "false",
                                      IPAPI_KEY |-> "", ABUSEIPDB_KEY |-> ""],
                                     FALSE, [status |-> "error", proxy |-> FALSE, hosting |-> FALSE],
                                     [status |-> "error", abuseConfidencePercentage |-> 0,
                                      isWhitelisted |-> FALSE],
                                     FALSE)])

\* a buffer of n entries logged before
Backlog(n) == IF n = 0 THEN <<>> ELSE <<[n |-> n, entry |-> BacklogEntry]>>

RECURSIVE SortOldestFirst(_)
SortOldestFirst(logs) ==
    IF logs = <<>> THEN <<>>
    ELSE LET last == logs[Len(logs)]
             sorted == SortOldestFirst(SubSeq(logs, 1, Len(logs) - 1))
             before == SelectSeq(sorted, LAMBDA x : TimeOf(x.entry.timestamp) <= TimeOf(last.entry.timestamp))
             after == SelectSeq(sorted, LAMBDA x : TimeOf(x.entry.timestamp) > TimeOf(last.entry.timestamp))
         IN before \o <<last>> \o after

RECURSIVE SortNewestFirst(_)
\* array.sort((a, b) => new Date(b.timestamp) - new Date(a.timestamp)): stable, so
\* entries of one instant keep their order
SortNewestFirst(logs) ==
    IF logs = <<>> THEN <<>>
    ELSE LET last == logs[Len(logs)]
             sorted == SortNewestFirst(SubSeq(logs, 1, Len(logs) - 1))
             before == SelectSeq(sorted, LAMBDA x : TimeOf(x.entry.timestamp) >= TimeOf(last.entry.timestamp))
             after == SelectSeq(sorted, LAMBDA x : TimeOf(x.entry.timestamp) < TimeOf(last.entry.timestamp))
         IN before \o <<last>> \o after

getRecentLogs(logs, dir, t, limit) ==
    LET recentFromMemory == SliceLast(logs, limit)
        recentFromDisk == SliceLast(ReadLogFile(dir, today(t)), limit)
    IN SliceFirst(SortNewestFirst(recentFromDisk \o recentFromMemory), limit)

\* log.analysis?.details?.country || 'Unknown'
CountryOf(entry) ==
    IF "country" \in DOMAIN entry.analysis.details THEN entry.analysis.details.country ELSE "Unknown"

\* avgRiskScore is the quotient sum / count, kept as its two terms
getStats(logs, dir, t) ==
    LET recentLogs == getRecentLogs(logs, dir, t, 1000)
        blocked == SelectSeq(recentLogs, LAMBDA x : x.entry.blocked)
        allowed == SelectSeq(recentLogs, LAMBDA x : ~x.entry.blocked)
        lastHourLogs == SelectSeq(recentLogs, LAMBDA x : TimeOf(x.entry.timestamp) > t - 3600000)
        RiskSum[i \in 0..Len(recentLogs)] ==
            IF i = 0 THEN 0 ELSE RiskSum[i - 1] + recentLogs[i].n * recentLogs[i].entry.riskScore
    IN [totalRequests |-> LogLength(recentLogs),
        blockedRequests |-> LogLength(blocked),
        allowedRequests |-> LogLength(allowed),
        avgRiskScore |-> IF LogLength(recentLogs) > 0
                         THEN [sum |-> RiskSum[Len(recentLogs)], count |-> LogLength(recentLogs)]
                         ELSE [sum |-> 0, count |-> 1],
        topBlockReasons |->
            [reason \in {blocked[i].entry.reason : i \in 1..Len(blocked)} |->
                LogLength(SelectSeq(blocked, LAMBDA x : x.entry.reason = reason))],
        topCountries |->
            [country \in {CountryOf(recentLogs[i].entry) : i \in 1..Len(recentLogs)} |->
                LogLength(SelectSeq(recentLogs, LAMBDA x : CountryOf(x.entry) = country))],
        lastHour |-> [total |-> LogLength(lastHourLogs),
                      blocked |-> LogLength(SelectSeq(lastHourLogs, LAMBDA x : x.entry.blocked))]]

----------------------------------------------------------------------------
(* GuardianMiddleware *)

MaxRequests == 2
MaxChanges == 1

Requests == 1..MaxRequests

\* the instants at which something happens: start-up, and start-up plus 299 s,
\* 300 s and 301 s
Times == {1000, 300000, 301000, 302000}

\* the clients of the gate and the outcomes of the remote calls made for them
ClientIPs == {"185.220.101.1", "36.110.0.9"}
ClientUserAgents == {"", "mozilla/5.0 (x11; linux x86_64) firefox/121.0"}
ClientVpnResponses == {v \in VpnResponses : v.status = "error" \/ (v.status = "ok" /\ v.proxy /\ ~v.hosting)}
ClientReputationResponses ==
    {x \in ReputationResponses : x.status = "error" \/ (x.status = "ok" /\ x.abuseConfidencePercentage = 90)}

NoResponse == [status |-> 0]

\* the axios timeouts of one analysis: Tor primary and fallback, VPN, reputation
MaxAnalysisMs == 15000 + 10000 + 3000 + 5000

\* a request: pc is idle (not arrived), analyze (missed the cache, analyzeIP running)
\* or done (answered).  flush and warned are what logRequest's flush did, if it
\* made one.
\* Kept for the properties: cachedAtLog, that the cache held the decision when
\* logRequest was called; loggedAtResponse, the entries of the request in the
\* buffer and the files when the response was sent; arrivedAt, the instant of the cache
\* lookup; found, the request that wrote the entry the lookup met (0 for none);
\* inflight, the requests being analysed at arrival; storedAt, the instant of the
\* cache write; epoch, the configuration the decision was made under.

IdleRequest ==
    [pc |-> "idle", ip |-> "", userAgent |-> "", arrivedAt |-> 0, found |-> 0, hit |-> FALSE,
     analysis |-> NoResult, response |-> NoResponse, inflight |-> {}, storedAt |-> 0, epoch |-> 0,
     flush |-> "none", warned |-> FALSE, cachedAtLog |-> FALSE, loggedAtResponse |-> 0]

\* the entries of request r in an array of log entries
EntriesOf(logs, r) == LogLength(SelectSeq(logs, LAMBDA x : x.entry.requestId = r))

\* the entries of request r in the buffer and in the files of the log directory
Logged(logs, dir, r) ==
    LET InFiles[d \in LogDays \cup {-1}] ==
            IF d = -1 THEN 0 ELSE InFiles[d - 1] + EntriesOf(ReadLogFile(dir, d), r)
    IN EntriesOf(logs, r) + InFiles[1]

\* the catch block of analyze
GuardianError == [status |-> 500, error |-> "Internal Guardian Error", code |-> "GUARDIAN_ERROR"]

handleResultWithoutDetails(analysis) ==
    IF analysis.isBlocked
    THEN [status |-> 403, blocked |-> TRUE, reason |-> analysis.reason, riskScore |-> analysis.riskScore]
    ELSE [status |-> 418, allowed |-> TRUE, riskScore |-> analysis.riskScore]

handleResultAlways418(analysis) ==
    [status |-> 418, allowed |-> TRUE, riskScore |-> analysis.riskScore, details |-> analysis.details]

\* the fields of the response that come from the analysis, with the status; the
\* requestId, the fixed message and the 403's timestamp say nothing of the decision
handleResult(analysis) ==
    IF analysis.isBlocked
    THEN [status |-> 403, blocked |-> TRUE, reason |-> analysis.reason, riskScore |-> analysis.riskScore]
    ELSE [status |-> 418, allowed |-> TRUE, riskScore |-> analysis.riskScore, details |-> analysis.details]

InFlight == {q \in Requests : req[q].pc \notin {"idle", "done"}}

Tor == [nodes |-> torExitNodes, lastUpdate |-> lastUpdate]

\* analyze, lines 12-24: the cache lookup and, on a hit, the response
GuardianLookup(r) ==
    /\ req[r].pc = "idle"
    /\ \A q \in Requests : q < r => req[q].pc # "idle"
    /\ \E clientIP \in ClientIPs, userAgent \in ClientUserAgents :
         LET key == cacheKey(clientIP)
             live == CacheLive(cache, key, now)
             arrived == [req[r] EXCEPT !.ip = clientIP, !.userAgent = userAgent, !.arrivedAt = now,
                                       !.inflight = InFlight, !.epoch = epoch,
                                       !.found = IF cache[key].present THEN cache[key].by ELSE 0]
         IN /\ cache' = CacheAfterGet(cache, key, now)
            /\ req' = [req EXCEPT ![r] =
                         IF live
                         THEN [arrived EXCEPT !.pc = "done", !.hit = TRUE,
                                              !.analysis = cache[key].v,
                                              !.response = handleResult(cache[key].v)]
                         ELSE [arrived EXCEPT !.pc = "analyze"]]
    /\ UNCHANGED <<call, result, torCall, published, requestLogs, logDir, logCall, clientCache, clientStats, clientReq, vpnRanges, breaker, breakerCall,
                   rateLimiters, rateCall,
                   now, env, torExitNodes, lastUpdate, analyses, torLookups, epoch>>

\* the TorService states a refresh at time t can leave, over the sources' answers
TorRefreshOutcomes(tor, t) ==
    {updateTorExitNodes(tor, t, primary, secondary) : primary \in ClientTorResponses, secondary \in ClientTorResponses}

\* the TorService states an isTorExitNode call at time t can leave
TorLookupOutcomes(tor, t) ==
    {isTorExitNode(tor, t, primary, secondary) : primary \in ClientTorResponses, secondary \in ClientTorResponses}

\* the analyses analyzeIP can return for a client, over the remote calls' outcomes
\* and over whether an exception escaped the pipeline
AnalysisOutcomes(ip, userAgent, e, isTor) ==
    {analyzeIP(ip, userAgent, e, isTor, vpn, rep, threw) :
        vpn \in ClientVpnResponses, rep \in ClientReputationResponses, threw \in BOOLEAN}

\* analyze, lines 27-43, from the moment the remote calls of analyzeIP have answered:
\* the analysis (with the Tor refresh isTorExitNode may make), cacheService.set,
\* logService.logRequest and the response.  Nothing but resolved promises separates
\* these statements, so no other request's handler runs between them.
GuardianAnalyze(r) ==
    /\ req[r].pc = "analyze"
    /\ \E tor \in TorLookupOutcomes(Tor, now) :
         /\ torExitNodes' = tor.nodes
         /\ lastUpdate' = tor.lastUpdate
         /\ epoch' = IF tor.nodes # torExitNodes THEN epoch + 1 ELSE epoch
         /\ \E analysis \in AnalysisOutcomes(req[r].ip, req[r].userAgent, env, req[r].ip \in tor.nodes),
               writable \in BOOLEAN :
              LET logged == logRequest(requestLogs, logDir,
                                       [requestId |-> r, ip |-> req[r].ip, userAgent |-> req[r].userAgent,
                                        analysis |-> analysis, timestamp |-> Date(now)],
                                       now, writable)
              IN /\ cache' = CacheSet(cache, cacheKey(req[r].ip), analysis, 300, now, r, epoch')
                 /\ requestLogs' = logged.requestLogs
                 /\ logDir' = logged.logDir
                 /\ req' = [req EXCEPT ![r].pc = "done", ![r].analysis = analysis,
                                       ![r].storedAt = now,
                                       ![r].response = IF logged.threw THEN GuardianError
                                                       ELSE handleResult(analysis),
                                       ![r].epoch = epoch',
                                       ![r].flush = logged.flush,
                                       ![r].warned = logged.warned,
                                       ![r].cachedAtLog =
                                           CacheLive(cache', cacheKey(req[r].ip), now)
                                           /\ cache'[cacheKey(req[r].ip)].v = analysis,
                                       ![r].loggedAtResponse =
                                           Logged(logged.requestLogs, logged.logDir, r)]
    /\ analyses' = analyses + 1
    /\ torLookups' = torLookups + 1
    /\ UNCHANGED <<call, result, torCall, published, logCall, clientCache, clientStats, clientReq, vpnRanges, breaker, breakerCall,
                   rateLimiters, rateCall,
                   now, env>>

\* a refresh of the Tor set outside a request (POST /api/tor/update)
TorUpdate ==
    /\ epoch < MaxChanges
    /\ \E tor \in TorRefreshOutcomes(Tor, now) :
         /\ tor.nodes # torExitNodes
         /\ torExitNodes' = tor.nodes
         /\ lastUpdate' = tor.lastUpdate
    /\ epoch' = epoch + 1
    /\ UNCHANGED <<call, result, torCall, published, requestLogs, logDir, logCall, clientCache, clientStats, clientReq, vpnRanges, breaker, breakerCall,
                   rateLimiters, rateCall,
                   now, env, cache, req, analyses, torLookups>>

\* process.env is read at every call: the operator changes one policy flag
SetPolicy ==
    /\ epoch < MaxChanges
    /\ \E b \in {"true", "false"}, m \in {"true", "false"} :
         /\ (b # env.BLOCK_VPN_TOR) # (m # env.STRICT_MODE)
         /\ env' = [env EXCEPT !.BLOCK_VPN_TOR = b, !.STRICT_MODE = m]
    /\ epoch' = epoch + 1
    /\ UNCHANGED <<call, result, torCall, published, requestLogs, logDir, logCall, clientCache, clientStats, clientReq, vpnRanges, breaker, breakerCall,
                   rateLimiters, rateCall,
                   now, torExitNodes, lastUpdate, cache, req, analyses, torLookups>>

\* node-cache's periodic check (checkperiod 120 s) deletes the expired entries
CacheCheckData ==
    /\ \E k \in DOMAIN cache : cache[k].present /\ ~CacheLive(cache, k, now)
    /\ cache' = [k \in DOMAIN cache |-> IF cache[k].present /\ ~CacheLive(cache, k, now)
                                        THEN NoEntry ELSE cache[k]]
    /\ UNCHANGED <<call, result, torCall, published, requestLogs, logDir, logCall, clientCache, clientStats, clientReq, vpnRanges, breaker, breakerCall,
                   rateLimiters, rateCall,
                   now, env, torExitNodes, lastUpdate, req, analyses, torLookups, epoch>>

\* time passes; analyzeIP's remote calls each end within their timeout, so a
\* request is not in analysis for longer than the timeouts add up to
AdvanceClock ==
    /\ \E t \in Times :
         /\ t > now
         /\ \A r \in InFlight : t - req[r].arrivedAt <= MaxAnalysisMs
         /\ now' = t
    /\ UNCHANGED <<call, result, torCall, published, requestLogs, logDir, logCall, clientCache, clientStats, clientReq, vpnRanges, breaker, breakerCall,
                   rateLimiters, rateCall,
                   env, torExitNodes, lastUpdate, cache, req, analyses, torLookups, epoch>>

\* the state initializeServices leaves: an empty cache, the Tor set loaded once;
\* the log buffer is two entries short of its limit, the day's log file not yet made
Init ==
    /\ call = [done |-> FALSE] /\ result = NoResult
    /\ torCall = <<>> /\ published = {}
    /\ requestLogs = Backlog(maxLogsInMemory - 2)
    /\ logDir = [day \in LogDays |-> NoFile]
    /\ logCall = <<>>
    /\ clientCache = <<>> /\ clientStats = <<>> /\ clientReq = <<>>
    /\ vpnRanges = {}
    /\ EnterpriseUnused
    /\ now = 1000
    /\ env = [BLOCK_VPN_TOR |-> "true", STRICT_MODE |-> "false", IPAPI_KEY |-> "", ABUSEIPDB_KEY |-> "k2"]
    /\ \E tor \in TorRefreshOutcomes([nodes |-> {}, lastUpdate |-> 0], 1000) :
         torExitNodes = tor.nodes /\ lastUpdate = tor.lastUpdate
    /\ cache = [k \in {cacheKey(ip) : ip \in ClientIPs} |-> NoEntry]
    /\ req = [r \in Requests |-> IdleRequest]
    /\ analyses = 0 /\ torLookups = 0 /\ epoch = 0

Next ==
    \/ \E r \in Requests : GuardianLookup(r)
    \/ \E r \in Requests : GuardianAnalyze(r)
    \/ TorUpdate
    \/ SetPolicy
    \/ CacheCheckData
    \/ AdvanceClock

Spec == Init /\ [][Next]_vars

----------------------------------------------------------------------------
(* SpecAnalyzer: analyzeIP on every input and every collector outcome *)

Calls == [ip : IPs, userAgent : UserAgents, isTor : BOOLEAN, vpn : VpnResponses,
          rep : ReputationResponses, threw : BOOLEAN, done : {FALSE}]

GateUnused ==
    /\ now = 0 /\ torExitNodes = {} /\ lastUpdate = 0 /\ cache = <<>> /\ req = <<>>
    /\ analyses = 0 /\ torLookups = 0 /\ epoch = 0
    /\ torCall = <<>> /\ published = {}
    /\ requestLogs = <<>> /\ logDir = <<>> /\ logCall = <<>>
    /\ clientCache = <<>> /\ clientStats = <<>> /\ clientReq = <<>>
    /\ EnterpriseUnused

\* a call of analyzeIP after ipAnalyzer.initialize has loaded the VPN ranges, or
\* has failed to
InitAnalyzer ==
    /\ call \in Calls
    /\ env \in Envs
    /\ result = NoResult
    /\ vpnRanges \in {initialize(x) : x \in VpnRangeResponses}
    /\ GateUnused

AnalyzeIPCall ==
    /\ ~call.done
    /\ call' = [call EXCEPT !.done = TRUE]
    /\ result' = analyzeIP(call.ip, call.userAgent, env, call.isTor, call.vpn, call.rep, call.threw)
    /\ UNCHANGED <<now, env, torExitNodes, lastUpdate, cache, req, analyses, torLookups, epoch,
                   torCall, published, requestLogs, logDir, logCall,
                   clientCache, clientStats, clientReq, vpnRanges, breaker, breakerCall,
                   rateLimiters, rateCall>>

NextAnalyzer == AnalyzeIPCall

SpecAnalyzer == InitAnalyzer /\ [][NextAnalyzer]_vars

----------------------------------------------------------------------------
(* SpecTor: TorService under overlapping isTorExitNode and updateTorExitNodes  *)
(* calls, one step per stretch of code between two awaits                     *)

MaxTorCalls == 2

TorCalls == 1..MaxTorCalls

\* start-up, one refresh interval after it, and one millisecond more
TorTimes == {1000, 1000 + updateInterval, 1001 + updateInterval}

\* the addresses isTorExitNode is asked about
TorQueryIPs == {"185.220.101.1", "36.110.0.9"}

\* the calls made on TorService: isTorExitNode(ip) by checkTorExitNode, and
\* updateTorExitNodes() by initializeServices and by POST /api/tor/update
TorCallInputs ==
    {[kind |-> "isTorExitNode", ip |-> i] : i \in TorQueryIPs}
    \cup {[kind |-> "updateTorExitNodes", ip |-> ""]}

\* what a source's request settles with: rejected (timeout, network error), an
\* empty body, a body that is not text (response.data.split throws), or a list
TorSourceLists == {{"185.220.101.1"}, {"36.110.0.9"}}

TorSourceResponses ==
    {[status |-> st, list |-> {}] : st \in {"error", "empty", "garbled"}}
    \cup {[status |-> "ok", list |-> l] : l \in TorSourceLists}

NoAttempt == [status |-> "none", list |-> {}]

\* the axios timeouts of the two sources
MaxRefreshMs == 15000 + 10000

\* updateTorExitNodes up to its first await: nothing is written before the request
RefreshBeginClears(tor) == [tor EXCEPT !.nodes = {}]

RefreshBegin(tor) == tor

\* updateTorExitNodes once the primary request has settled: the writes of the try
\* block; a rejection or a throwing parse writes nothing and goes to the catch
updateTorExitNodesSettled(tor, t, primary) ==
    IF primary.status = "ok" THEN [nodes |-> primary.list, lastUpdate |-> t] ELSE tor

\* where updateTorExitNodes is after the primary request settled: returned, or in
\* its catch awaiting loadFallbackExitNodes
AfterPrimaryRetries(primary) ==
    IF primary.status \in {"ok", "empty"} THEN "done" ELSE "primary"

AfterPrimary(primary) ==
    IF primary.status \in {"ok", "empty"} THEN "done" ELSE "secondary"

NoTor == [nodes |-> {}, lastUpdate |-> 0]

\* a call: pc is idle, primary or secondary (awaiting that source) or done.  atCall,
\* before and after are the TorService state when the call was made, just before
\* and just after the call's last step; seen is the set the answer was read from;
\* during, the calls that were awaiting a source when the answer was read
IdleTorCall ==
    [pc |-> "idle", kind |-> "", ip |-> "", startedAt |-> 0, refreshed |-> FALSE,
     primary |-> NoAttempt, secondary |-> NoAttempt,
     atCall |-> NoTor, before |-> NoTor, after |-> NoTor,
     answered |-> FALSE, answer |-> FALSE, seen |-> {}, during |-> {}]

Refreshing == {q \in TorCalls : torCall[q].pc \in {"primary", "secondary"}}

TorFrame ==
    UNCHANGED <<call, result, env, cache, req, analyses, torLookups, epoch, requestLogs, logDir, logCall,
                   clientCache, clientStats, clientReq, vpnRanges, breaker, breakerCall,
                   rateLimiters, rateCall>>

\* isTorExitNode(ip) up to its return or its first await; updateTorExitNodes() up
\* to its first await
TorCallStart(p) ==
    /\ torCall[p].pc = "idle"
    /\ \A q \in TorCalls : q < p => torCall[q].pc # "idle"
    /\ \E c \in TorCallInputs :
         LET refresh == c.kind = "updateTorExitNodes" \/ TorStale(Tor, now)
             tor == IF refresh THEN RefreshBegin(Tor) ELSE Tor
         IN /\ torExitNodes' = tor.nodes
            /\ lastUpdate' = tor.lastUpdate
            /\ torCall' = [torCall EXCEPT ![p] =
                   [@ EXCEPT !.pc = IF refresh THEN "primary" ELSE "done",
                             !.kind = c.kind, !.ip = c.ip, !.startedAt = now,
                             !.refreshed = refresh,
                             !.atCall = Tor, !.before = Tor, !.after = tor,
                             !.answered = ~refresh,
                             !.answer = ~refresh /\ c.ip \in tor.nodes,
                             !.seen = IF refresh THEN {} ELSE tor.nodes,
                             !.during = IF refresh THEN {} ELSE Refreshing]]
    /\ UNCHANGED <<now, published>>
    /\ TorFrame

\* the primary request settles: the set is replaced, or left alone, or the call
\* goes on to the fallback source; a call that is over returns has(ip)
TorPrimarySettles(p) ==
    /\ torCall[p].pc = "primary"
    /\ \E primary \in TorSourceResponses :
         LET tor == updateTorExitNodesSettled(Tor, now, primary)
             pc == AfterPrimary(primary)
             over == pc = "done"
             isCall == torCall[p].kind = "isTorExitNode"
         IN /\ torExitNodes' = tor.nodes
            /\ lastUpdate' = tor.lastUpdate
            /\ published' = IF over THEN tor.nodes ELSE published
            /\ torCall' = [torCall EXCEPT ![p] =
                   [@ EXCEPT !.pc = pc, !.primary = primary,
                             !.before = Tor, !.after = tor,
                             !.answered = over /\ isCall,
                             !.answer = over /\ isCall /\ torCall[p].ip \in tor.nodes,
                             !.seen = IF over /\ isCall THEN tor.nodes ELSE {},
                             !.during = IF over /\ isCall THEN Refreshing \ {p} ELSE {}]]
    /\ UNCHANGED now
    /\ TorFrame

\* the fallback request settles: loadFallbackExitNodes adds its list, or, rejected,
\* loadHardcodedExitNodes adds the known nodes; the call returns
TorSecondarySettles(p) ==
    /\ torCall[p].pc = "secondary"
    /\ \E secondary \in TorSourceResponses :
         LET tor == loadFallbackExitNodes(Tor, now, secondary)
             isCall == torCall[p].kind = "isTorExitNode"
         IN /\ torExitNodes' = tor.nodes
            /\ lastUpdate' = tor.lastUpdate
            /\ published' = tor.nodes
            /\ torCall' = [torCall EXCEPT ![p] =
                   [@ EXCEPT !.pc = "done", !.secondary = secondary,
                             !.before = Tor, !.after = tor,
                             !.answered = isCall,
                             !.answer = isCall /\ torCall[p].ip \in tor.nodes,
                             !.seen = IF isCall THEN tor.nodes ELSE {},
                             !.during = IF isCall THEN Refreshing \ {p} ELSE {}]]
    /\ UNCHANGED now
    /\ TorFrame

\* time passes; a request to a source settles within its timeout
TorAdvanceClock ==
    /\ \E t \in TorTimes :
         /\ t > now
         /\ \A q \in Refreshing : t - torCall[q].startedAt <= MaxRefreshMs
         /\ now' = t
    /\ UNCHANGED <<torExitNodes, lastUpdate, torCall, published>>
    /\ TorFrame

\* the TorService the constructor leaves (an empty set, lastUpdate null), or the one
\* the refresh of initializeServices has loaded from the primary source
TorStartStates ==
    {NoTor} \cup {updateTorExitNodesSettled(NoTor, 1000, x) : x \in TorSourceResponses}

InitTor ==
    /\ now = 1000
    /\ \E tor \in TorStartStates :
         torExitNodes = tor.nodes /\ lastUpdate = tor.lastUpdate /\ published = tor.nodes
    /\ torCall = [p \in TorCalls |-> IdleTorCall]
    /\ call = [done |-> FALSE] /\ result = NoResult
    /\ env = [BLOCK_VPN_TOR |-> "true", STRICT_MODE |-> "false", IPAPI_KEY |-> "", ABUSEIPDB_KEY |-> ""]
    /\ cache = <<>> /\ req = <<>>
    /\ analyses = 0 /\ torLookups = 0 /\ epoch = 0
    /\ requestLogs = <<>> /\ logDir = <<>> /\ logCall = <<>>
    /\ clientCache = <<>> /\ clientStats = <<>> /\ clientReq = <<>> /\ vpnRanges = {}
    /\ EnterpriseUnused

NextTor ==
    \/ \E p \in TorCalls : TorCallStart(p)
    \/ \E p \in TorCalls : TorPrimarySettles(p)
    \/ \E p \in TorCalls : TorSecondarySettles(p)
    \/ TorAdvanceClock

SpecTor == InitTor /\ [][NextTor]_vars

\* every request to a source settles: axios is given a timeout (15 s, 10 s)
FairSpecTor ==
    /\ SpecTor
    /\ \A p \in TorCalls : WF_vars(TorPrimarySettles(p)) /\ WF_vars(TorSecondarySettles(p))

----------------------------------------------------------------------------
(* SpecBulk: POST /analyze/bulk of the API router *)

MaxBulkIPs == 100

\* an array of n addresses
IPArray(n, first) == [i \in 1..n |-> IF (i + first) % 3 = 0 THEN "185.220.101.1"
                                      ELSE IF (i + first) % 3 = 1 THEN "36.110.0.9"
                                      ELSE "10.0.0.5"]

\* req.body.ips: missing, a string, an object, or an array of 0 to 101 addresses
BulkBodies ==
    {[type |-> t, ips |-> <<>>] : t \in {"undefined", "string", "object"}}
    \cup {[type |-> "array", ips |-> IPArray(n, first)] :
            n \in {0, 1, 2, 3, MaxBulkIPs - 1, MaxBulkIPs, MaxBulkIPs + 1}, first \in 0..2}

\* one call: the body, and what the collectors of the analyses meet (the Tor set,
\* the answers of the remote calls, the addresses whose analysis throws)
BulkCalls ==
    [body : BulkBodies, tor : {{}, {"185.220.101.1"}},
     vpn : ClientVpnResponses, rep : ClientReputationResponses,
     throws : {{}, {"10.0.0.5"}}, done : {FALSE}]

\* the handler: what it answers and the number of analyzeIP calls it makes.
\* analyzeIP(ip) is called without a user agent; Promise.all gives the results in
\* the order of the promises, which is the order of ips.
AnalyzeBulkCapExclusive(c, e) ==
    IF c.body.type # "array" \/ Len(c.body.ips) = 0
    THEN [analyzed |-> 0, res |-> [status |-> 400, code |-> "MISSING_IPS"]]
    ELSE IF Len(c.body.ips) >= MaxBulkIPs
    THEN [analyzed |-> 0, res |-> [status |-> 400, code |-> "TOO_MANY_IPS"]]
    ELSE [analyzed |-> Len(c.body.ips),
          res |-> [status |-> 200, success |-> TRUE,
                   data |-> [i \in 1..Len(c.body.ips) |->
                               analyzeIP(c.body.ips[i], "", e, c.body.ips[i] \in c.tor, c.vpn, c.rep,
                                         c.body.ips[i] \in c.throws)]]]

AnalyzeBulk(c, e) ==
    IF c.body.type # "array" \/ Len(c.body.ips) = 0
    THEN [analyzed |-> 0, res |-> [status |-> 400, code |-> "MISSING_IPS"]]
    ELSE IF Len(c.body.ips) > MaxBulkIPs
    THEN [analyzed |-> 0, res |-> [status |-> 400, code |-> "TOO_MANY_IPS"]]
    ELSE [analyzed |-> Len(c.body.ips),
          res |-> [status |-> 200, success |-> TRUE,
                   data |-> [i \in 1..Len(c.body.ips) |->
                               analyzeIP(c.body.ips[i], "", e, c.body.ips[i] \in c.tor, c.vpn, c.rep,
                                         c.body.ips[i] \in c.throws)]]]

InitBulk ==
    /\ call \in BulkCalls
    /\ env \in {e \in Envs : e.IPAPI_KEY = "" /\ e.ABUSEIPDB_KEY = "k2"}
    /\ result = NoResult
    /\ vpnRanges = {}
    /\ GateUnused

BulkAnalyzeCall ==
    /\ ~call.done
    /\ call' = [call EXCEPT !.done = TRUE]
    /\ result' = AnalyzeBulk(call, env).res
    /\ analyses' = analyses + AnalyzeBulk(call, env).analyzed
    /\ UNCHANGED <<now, env, torExitNodes, lastUpdate, cache, req, torLookups, epoch,
                   torCall, published, requestLogs, logDir, logCall,
                   clientCache, clientStats, clientReq, vpnRanges, breaker, breakerCall,
                   rateLimiters, rateCall>>

NextBulk == BulkAnalyzeCall

SpecBulk == InitBulk /\ [][NextBulk]_vars

----------------------------------------------------------------------------
(* SpecLog: LogService under logRequest calls, its flush timer and getStats *)

MaxLogRequests == 3

\* the instants of the model: three consecutive firings of the flush timer, its
\* last firing before the next midnight (UTC) and its first firing after it
LogTimes == {1000, 1000 + flushInterval, 1000 + 2 * flushInterval,
             1000 + 2879 * flushInterval, 1000 + 2880 * flushInterval}

\* the analyses logged: a blocked Tor exit node in Germany, an allowed client in
\* China, and an analysis that failed
LogAnalyses ==
    LET e == [BLOCK_VPN_TOR |-> "true", STRICT_MODE |-> "false", IPAPI_KEY |-> "", ABUSEIPDB_KEY |-> ""]
        vpn == [status |-> "error", proxy |-> FALSE, hosting |-> FALSE]
        rep == [status |-> "error", abuseConfidencePercentage |-> 0, isWhitelisted |-> FALSE]
        ua == "mozilla/5.0 (x11; linux x86_64) firefox/121.0"
    IN {analyzeIP("185.220.101.1", ua, e, TRUE, vpn, rep, FALSE),
        analyzeIP("36.110.0.9", ua, e, FALSE, vpn, rep, FALSE),
        analyzeIP("10.0.0.5", ua, e, FALSE, vpn, rep, TRUE)}

NoStats == [totalRequests |-> -1]

\* the last call: op is none, logRequest, timer or getStats; requests counts the
\* logRequest calls made (the requestId of the next is one more); flush is what the
\* last logRequest or timer call's flush did (none: it made no flush); stats is what
\* getStats returned; analysis and response are the analysis logged and what the
\* middleware then answered
IdleLogCall ==
    [op |-> "none", requests |-> 0, flush |-> "none", warned |-> FALSE, threw |-> FALSE, stats |-> NoStats,
     analysis |-> NoResult, response |-> NoResponse]

LogFrame ==
    UNCHANGED <<call, result, env, torExitNodes, lastUpdate, cache, req, analyses, torLookups, epoch,
                torCall, published, clientCache, clientStats, clientReq, vpnRanges, breaker, breakerCall,
                   rateLimiters, rateCall>>

\* a request is logged and answered (guardian.js:33-51) while the timer has a
\* firing to come
LogRequest ==
    /\ logCall.requests < MaxLogRequests
    /\ now + flushInterval \in LogTimes
    /\ \E analysis \in LogAnalyses, writable \in BOOLEAN :
         LET requestData == [requestId |-> logCall.requests + 1, ip |-> analysis.ip,
                             userAgent |-> "mozilla/5.0 (x11; linux x86_64) firefox/121.0",
                             analysis |-> analysis, timestamp |-> Date(now)]
             logged == logRequest(requestLogs, logDir, requestData, now, writable)
         IN /\ requestLogs' = logged.requestLogs
            /\ logDir' = logged.logDir
            /\ logCall' = [op |-> "logRequest", requests |-> logCall.requests + 1,
                           flush |-> logged.flush, warned |-> logged.warned,
                           threw |-> logged.threw, stats |-> NoStats,
                           analysis |-> analysis,
                           response |-> IF logged.threw THEN GuardianError
                                        ELSE handleResult(analysis)]
    /\ UNCHANGED now
    /\ LogFrame

\* the setInterval callback of initialize: flushInterval after its last firing
TimerFlush ==
    /\ now + flushInterval \in LogTimes
    /\ now' = now + flushInterval
    /\ \E writable \in BOOLEAN :
         LET flushed == flushLogsToDisk(requestLogs, logDir, now', writable)
         IN /\ requestLogs' = flushed.requestLogs
            /\ logDir' = flushed.logDir
            /\ logCall' = [logCall EXCEPT !.op = "timer", !.flush = flushed.flush,
                                          !.warned = flushed.warned,
                                          !.threw = flushed.threw, !.stats = NoStats]
    /\ LogFrame

\* hours in which no request is logged and every firing of the timer finds the
\* buffer empty or fails to write it
TimerIdles ==
    /\ \E t \in LogTimes :
         /\ t > now + flushInterval
         /\ now' = t
    /\ logCall' = [logCall EXCEPT !.op = "timer", !.threw = FALSE, !.stats = NoStats,
                                  !.flush = flushLogsToDisk(requestLogs, logDir, now', FALSE).flush,
                                  !.warned = flushLogsToDisk(requestLogs, logDir, now', FALSE).warned]
    /\ UNCHANGED <<requestLogs, logDir>>
    /\ LogFrame

\* GET /api/stats
GetStats ==
    /\ logCall' = [logCall EXCEPT !.op = "getStats", !.threw = FALSE,
                                  !.stats = getStats(requestLogs, logDir, now)]
    /\ logCall' # logCall
    /\ UNCHANGED <<now, requestLogs, logDir>>
    /\ LogFrame

\* the buffer holds what was logged since the timer's last firing (nothing, or two
\* entries short of the limit); the day's file is absent, unreadable with no entry
\* or with two in it, or holds two entries
InitLog ==
    /\ now = 1000
    /\ requestLogs \in {Backlog(0), Backlog(maxLogsInMemory - 2)}
    /\ logDir \in {[day \in LogDays |-> IF day = today(1000) THEN f ELSE NoFile] :
                      f \in {NoFile, GarbledFile, UnreadableFile(Stringify(Backlog(2))),
                            LogFile(Stringify(Backlog(2)))}}
    /\ logCall = IdleLogCall
    /\ clientCache = <<>> /\ clientStats = <<>> /\ clientReq = <<>> /\ vpnRanges = {}
    /\ EnterpriseUnused
    /\ call = [done |-> FALSE] /\ result = NoResult
    /\ env = [BLOCK_VPN_TOR |-> "true", STRICT_MODE |-> "false", IPAPI_KEY |-> "", ABUSEIPDB_KEY |-> ""]
    /\ torExitNodes = {} /\ lastUpdate = 0 /\ cache = <<>> /\ req = <<>>
    /\ analyses = 0 /\ torLookups = 0 /\ epoch = 0
    /\ torCall = <<>> /\ published = {}

NextLog ==
    \/ LogRequest
    \/ TimerFlush
    \/ TimerIdles
    \/ GetStats

SpecLog == InitLog /\ [][NextLog]_vars

\* setInterval fires the callback every flushInterval
FairSpecLog == SpecLog /\ WF_vars(TimerFlush)

----------------------------------------------------------------------------
(* SpecClient: the GuardianMiddleware of backend-integration, which asks a       *)
(* Guardian service about each request of the backend it protects               *)

MaxClientRequests == 2

ClientRequests == 1..MaxClientRequests

retries == 2
cacheTTL == 300000

\* for how long one request can be asking: two posts of at most 5 s (timeout) and
\* the 100 ms wait between them
MaxCheckMs == 2 * 5000 + 100

\* the instants of the model: a first request, and that instant plus the cache's
\* TTL less 1 ms, plus the TTL, plus the TTL and 1 ms
ClientTimes == {1000, 1000 + cacheTTL - 1, 1000 + cacheTTL, 1000 + cacheTTL + 1}

\* the user agents of the backend's clients, all of one address
BackendUserAgents == {"", "curl/7.0"}

\* `${clientIP}:${userAgent}`
ClientCacheKey(clientIP, userAgent) == clientIP \o ":" \o userAgent

\* response.data.data when the service sent none
Undefined == [undefined |-> TRUE]

\* what axios.post(guardianUrl/api/analyze) comes to: rejected (no connection,
\* timeout, a status outside 2xx); resolved without success in the body; resolved
\* with success and an analysis, blocked or allowed, or with no data at all
GuardianAnswers ==
    {[kind |-> "rejected", data |-> Undefined], [kind |-> "unsuccessful", data |-> Undefined],
     [kind |-> "success", data |-> Undefined]}
    \cup {[kind |-> "success", data |-> a] : a \in {x \in LogAnalyses : x.reason # "ANALYSIS_ERROR"}}

NoCached == [present |-> FALSE, result |-> Undefined, timestamp |-> 0]

\* what a request came to: the stats after it, what was sent (a 403, or next()),
\* and whether the statement threw
handleGuardianResponse(analysis, stats) ==
    LET counted == [stats EXCEPT !.total = @ + 1] IN
    IF analysis = Undefined
    THEN [stats |-> counted, sent |-> "none", threw |-> TRUE]
    ELSE IF analysis.isBlocked
    THEN [stats |-> [counted EXCEPT !.blocked = @ + 1], sent |-> "403", threw |-> FALSE]
    ELSE [stats |-> [counted EXCEPT !.allowed = @ + 1], sent |-> "next", threw |-> FALSE]

FailClosed(stats) ==
    [stats |-> [stats EXCEPT !.errors = @ + 1], sent |-> "403", threw |-> FALSE]

\* the catch block of the middleware
FailSafe(stats) ==
    [stats |-> [stats EXCEPT !.errors = @ + 1], sent |-> "next", threw |-> FALSE]

\* handleGuardianResponse inside the middleware's try
Respond(analysis, stats) ==
    LET handled == handleGuardianResponse(analysis, stats) IN
    IF handled.threw THEN FailSafe(handled.stats) ELSE handled

\* a request: pc is idle, post (awaiting axios.post), wait (awaiting the pause
\* before the next attempt) or done; i is the loop variable of checkWithGuardian;
\* lastError, that an attempt was rejected; posts, the posts made; failed, that
\* checkWithGuardian threw; obtained, the analysis the request was decided on
IdleClientRequest ==
    [pc |-> "idle", userAgent |-> "", startedAt |-> 0, i |-> 0, lastError |-> FALSE, posts |-> 0,
     failed |-> FALSE, fromCache |-> FALSE, obtained |-> Undefined, sent |-> "none"]

ClientFrame ==
    UNCHANGED <<call, result, env, torExitNodes, lastUpdate, cache, req, analyses, torLookups, epoch,
                torCall, published, requestLogs, logDir, logCall, vpnRanges, breaker, breakerCall,
                   rateLimiters, rateCall>>

\* the middleware up to its answer from the cache or to its first post
ClientStart(r) ==
    /\ clientReq[r].pc = "idle"
    /\ \A q \in ClientRequests : q < r => clientReq[q].pc # "idle"
    /\ \E userAgent \in BackendUserAgents :
         LET key == ClientCacheKey("36.110.0.9", userAgent)
             cached == clientCache[key]
             started == [clientReq[r] EXCEPT !.userAgent = userAgent, !.startedAt = now]
         IN IF cached.present /\ now - cached.timestamp < cacheTTL
            THEN LET answered == Respond(cached.result, clientStats) IN
                 /\ clientStats' = answered.stats
                 /\ clientReq' = [clientReq EXCEPT ![r] =
                        [started EXCEPT !.pc = "done", !.fromCache = TRUE,
                                        !.obtained = cached.result, !.sent = answered.sent]]
                 /\ UNCHANGED clientCache
            ELSE /\ clientCache' = [clientCache EXCEPT ![key] = NoCached]
                 /\ clientReq' = [clientReq EXCEPT ![r] = [started EXCEPT !.pc = "post", !.posts = 1]]
                 /\ UNCHANGED clientStats
    /\ UNCHANGED now
    /\ ClientFrame

\* checkWithGuardian threw: the catch block of the middleware
ClientGivesUp(r) ==
    /\ clientStats' = FailSafe(clientStats).stats
    /\ clientReq' = [clientReq EXCEPT ![r].pc = "done", ![r].failed = TRUE,
                                      ![r].sent = FailSafe(clientStats).sent]
    /\ UNCHANGED clientCache

\* a post settles
ClientPostSettles(r) ==
    /\ clientReq[r].pc = "post"
    /\ \E answer \in GuardianAnswers :
         CASE answer.kind = "rejected" ->
                IF clientReq[r].i = retries - 1
                THEN ClientGivesUp(r)
                ELSE /\ clientReq' = [clientReq EXCEPT ![r].pc = "wait", ![r].lastError = TRUE]
                     /\ UNCHANGED <<clientCache, clientStats>>
           [] answer.kind = "unsuccessful" ->
                IF clientReq[r].i + 1 < retries
                THEN /\ clientReq' = [clientReq EXCEPT ![r].i = @ + 1, ![r].posts = @ + 1]
                     /\ UNCHANGED <<clientCache, clientStats>>
                ELSE ClientGivesUp(r)
           [] OTHER ->
                LET answered == Respond(answer.data, clientStats) IN
                /\ clientCache' = [clientCache EXCEPT
                       ![ClientCacheKey("36.110.0.9", clientReq[r].userAgent)] =
                           [present |-> TRUE, result |-> answer.data, timestamp |-> now]]
                /\ clientStats' = answered.stats
                /\ clientReq' = [clientReq EXCEPT ![r].pc = "done", ![r].obtained = answer.data,
                                                  ![r].sent = answered.sent]
    /\ UNCHANGED now
    /\ ClientFrame

\* the pause after a rejected attempt ends and the next post is made
ClientWaitEnds(r) ==
    /\ clientReq[r].pc = "wait"
    /\ clientReq' = [clientReq EXCEPT ![r].pc = "post", ![r].i = @ + 1, ![r].posts = @ + 1]
    /\ UNCHANGED <<now, clientCache, clientStats>>
    /\ ClientFrame

\* the setInterval callback of the constructor
clearExpiredCache ==
    /\ \E k \in DOMAIN clientCache : clientCache[k].present /\ now - clientCache[k].timestamp > cacheTTL
    /\ clientCache' = [k \in DOMAIN clientCache |->
                          IF clientCache[k].present /\ now - clientCache[k].timestamp > cacheTTL
                          THEN NoCached ELSE clientCache[k]]
    /\ UNCHANGED <<now, clientStats, clientReq>>
    /\ ClientFrame

ClientAdvanceClock ==
    /\ \E t \in ClientTimes :
         /\ t > now
         /\ \A r \in ClientRequests :
               clientReq[r].pc \in {"post", "wait"} => t - clientReq[r].startedAt <= MaxCheckMs
         /\ now' = t
    /\ UNCHANGED <<clientCache, clientStats, clientReq>>
    /\ ClientFrame

InitClient ==
    /\ now = 1000
    /\ clientCache = [k \in {ClientCacheKey("36.110.0.9", ua) : ua \in BackendUserAgents} |-> NoCached]
    /\ clientStats = [total |-> 0, blocked |-> 0, allowed |-> 0, errors |-> 0]
    /\ clientReq = [r \in ClientRequests |-> IdleClientRequest]
    /\ vpnRanges = {}
    /\ EnterpriseUnused
    /\ call = [done |-> FALSE] /\ result = NoResult
    /\ env = [BLOCK_VPN_TOR |-> "true", STRICT_MODE |-> "false", IPAPI_KEY |-> "", ABUSEIPDB_KEY |-> ""]
    /\ torExitNodes = {} /\ lastUpdate = 0 /\ cache = <<>> /\ req = <<>>
    /\ analyses = 0 /\ torLookups = 0 /\ epoch = 0
    /\ torCall = <<>> /\ published = {}
    /\ requestLogs = <<>> /\ logDir = <<>> /\ logCall = <<>>

NextClient ==
    \/ \E r \in ClientRequests : ClientStart(r)
    \/ \E r \in ClientRequests : ClientPostSettles(r)
    \/ \E r \in ClientRequests : ClientWaitEnds(r)
    \/ clearExpiredCache
    \/ ClientAdvanceClock

SpecClient == InitClient /\ [][NextClient]_vars

----------------------------------------------------------------------------
(* SpecBreaker: a circuit breaker of EnterpriseErrorHandler.createCircuitBreaker, *)
(* made with the default options, under overlapping execute calls                *)

MaxExecCalls == 3

ExecCalls == 1..MaxExecCalls

failureThreshold == 5
resetTimeout == 60000

\* a first instant, that instant plus resetTimeout and 1 ms more, and the same
\* two once again after that
BreakerTimes == {1000, 1000 + resetTimeout, 1001 + resetTimeout,
                 1001 + 2 * resetTimeout, 1002 + 2 * resetTimeout}

\* the object createCircuitBreaker returns (lastFailureTime 0 is null)
NewBreaker == [state |-> "CLOSED", failures |-> 0, lastFailureTime |-> 0]

\* the breakers the model starts from: new; closed, one failure short of the
\* threshold; opened by the failure that reached the threshold a moment ago
BreakerStartStates ==
    {NewBreaker,
     [state |-> "CLOSED", failures |-> failureThreshold - 1, lastFailureTime |-> 1000],
     [state |-> "OPEN", failures |-> failureThreshold, lastFailureTime |-> 1000]}

\* execute up to its await: the breaker it leaves and whether fn is invoked (if
\* not, execute throws 'Circuit breaker is OPEN')
executeBegin(b, t) ==
    IF b.state = "OPEN"
    THEN IF t - b.lastFailureTime > resetTimeout
         THEN [breaker |-> [b EXCEPT !.state = "HALF_OPEN", !.failures = 0], invoked |-> TRUE]
         ELSE [breaker |-> b, invoked |-> FALSE]
    ELSE [breaker |-> b, invoked |-> TRUE]

executeSettledStaysHalfOpen(b, t, ok) ==
    IF ok
    THEN b
    ELSE LET failed == [b EXCEPT !.failures = @ + 1, !.lastFailureTime = t] IN
         IF failed.failures >= failureThreshold THEN [failed EXCEPT !.state = "OPEN"] ELSE failed

\* execute from the moment fn() settles: ok, it resolved; otherwise it rejected
executeSettled(b, t, ok) ==
    IF ok
    THEN IF b.state = "HALF_OPEN" THEN [b EXCEPT !.state = "CLOSED", !.failures = 0] ELSE b
    ELSE LET failed == [b EXCEPT !.failures = @ + 1, !.lastFailureTime = t] IN
         IF failed.failures >= failureThreshold THEN [failed EXCEPT !.state = "OPEN"] ELSE failed

\* an execute call: pc is idle, running (awaiting fn) or done; outcome is rejected
\* (thrown by the breaker, fn not invoked), returned or threw (what fn did); trial,
\* that the call moved the breaker from OPEN to HALF_OPEN; settledAt, the instant
\* fn settled
IdleExecCall ==
    [pc |-> "idle", startedAt |-> 0, settledAt |-> 0, invoked |-> FALSE, trial |-> FALSE,
     outcome |-> "none"]

BreakerFrame ==
    UNCHANGED <<call, result, env, torExitNodes, lastUpdate, cache, req, analyses, torLookups, epoch,
                torCall, published, requestLogs, logDir, logCall,
                clientCache, clientStats, clientReq, vpnRanges, rateLimiters, rateCall>>

ExecuteStart(p) ==
    /\ breakerCall[p].pc = "idle"
    /\ \A q \in ExecCalls : q < p => breakerCall[q].pc # "idle"
    /\ LET begun == executeBegin(breaker, now) IN
       /\ breaker' = begun.breaker
       /\ breakerCall' = [breakerCall EXCEPT ![p] =
              [@ EXCEPT !.pc = IF begun.invoked THEN "running" ELSE "done",
                        !.startedAt = now,
                        !.invoked = begun.invoked,
                        !.trial = breaker.state = "OPEN" /\ begun.invoked,
                        !.outcome = IF begun.invoked THEN "none" ELSE "rejected"]]
    /\ UNCHANGED now
    /\ BreakerFrame

ExecuteSettles(p) ==
    /\ breakerCall[p].pc = "running"
    /\ \E ok \in BOOLEAN :
         /\ breaker' = executeSettled(breaker, now, ok)
         /\ breakerCall' = [breakerCall EXCEPT ![p].pc = "done", ![p].settledAt = now,
                                               ![p].outcome = IF ok THEN "returned" ELSE "threw"]
    /\ UNCHANGED now
    /\ BreakerFrame

BreakerAdvanceClock ==
    /\ \E t \in BreakerTimes : t > now /\ now' = t
    /\ UNCHANGED <<breaker, breakerCall>>
    /\ BreakerFrame

InitBreaker ==
    /\ now = 1000
    /\ breaker \in BreakerStartStates
    /\ breakerCall = [p \in ExecCalls |-> IdleExecCall]
    /\ rateLimiters = <<>> /\ rateCall = <<>>
    /\ call = [done |-> FALSE] /\ result = NoResult
    /\ env = [BLOCK_VPN_TOR |-> "true", STRICT_MODE |-> "false", IPAPI_KEY |-> "", ABUSEIPDB_KEY |-> ""]
    /\ torExitNodes = {} /\ lastUpdate = 0 /\ cache = <<>> /\ req = <<>>
    /\ analyses = 0 /\ torLookups = 0 /\ epoch = 0
    /\ torCall = <<>> /\ published = {}
    /\ requestLogs = <<>> /\ logDir = <<>> /\ logCall = <<>>
    /\ clientCache = <<>> /\ clientStats = <<>> /\ clientReq = <<>> /\ vpnRanges = {}

NextBreaker ==
    \/ \E p \in ExecCalls : ExecuteStart(p)
    \/ \E p \in ExecCalls : ExecuteSettles(p)
    \/ BreakerAdvanceClock

SpecBreaker == InitBreaker /\ [][NextBreaker]_vars

----------------------------------------------------------------------------
(* SpecRate: the in-memory rate limiters of MultiTenantManager, under           *)
(* checkRateLimit calls and the periodic cleanupExpiredSessions                  *)

MaxRateCalls == 4

RateTenants == {"acme", "globex"}

\* requestsPerMinute of the starter plan, the limit checkUsageLimits passes
requestsPerMinute == 100
windowMs == 60000
\* the age of windowStart past which cleanupExpiredSessions deletes a limiter,
\* also the period of its timer
cleanupAgeMs == 300000

\* the instant a tenant's first request created its limiter, and the instant of
\* its later requests
FirstRequestMs == 1000
BurstMs == FirstRequestMs + cleanupAgeMs - 500

\* cleanupAgeMs after the first request and 1 ms later; 1 ms before the burst
\* leaves the window and the instant it does; 1 ms after
RateTimes == {FirstRequestMs + cleanupAgeMs, FirstRequestMs + cleanupAgeMs + 1,
              BurstMs + windowMs - 1, BurstMs + windowMs, BurstMs + windowMs + 1}

RateStamps == {BurstMs} \cup RateTimes

\* the requests array, by the number of elements equal to each instant
NoRequests == [t \in RateStamps |-> 0]

RECURSIVE CountOver(_, _)
CountOver(requests, stamps) ==
    IF stamps = {} THEN 0
    ELSE LET t == CHOOSE x \in stamps : TRUE IN requests[t] + CountOver(requests, stamps \ {t})

\* requests.length
RequestsLength(requests) == CountOver(requests, RateStamps)

\* requests.filter(time => now - time < windowMs)
FilterWindow(requests, t) ==
    [x \in RateStamps |-> IF t - x < windowMs THEN requests[x] ELSE 0]

\* this.rateLimiters.get(key) of a key the map does not hold
NoLimiter == [present |-> FALSE]

Limiter(requests, windowStart) ==
    [present |-> TRUE, requests |-> requests, windowStart |-> windowStart]

\* the limiters a tenant starts with: none (no request yet); one created by a
\* request at FirstRequestMs that holds limit - 1 requests made at BurstMs; one
\* created at BurstMs by the first of limit - 1 requests
RateStartLimiters ==
    {NoLimiter,
     Limiter([NoRequests EXCEPT ![BurstMs] = requestsPerMinute - 1], FirstRequestMs),
     Limiter([NoRequests EXCEPT ![BurstMs] = requestsPerMinute - 1], BurstMs)}

\* checkRateLimit(tenantId, limit) at instant t: the map it leaves and what it
\* returns (the function has no await, so it runs in one step)
checkRateLimit(limiters, tenantId, limit, t) ==
    LET found   == IF limiters[tenantId].present THEN limiters[tenantId]
                   ELSE Limiter(NoRequests, t)
        cleaned == FilterWindow(found.requests, t)
    IN  IF RequestsLength(cleaned) >= limit
        THEN [limiters |-> [limiters EXCEPT ![tenantId] = Limiter(cleaned, found.windowStart)],
              result   |-> [allowed |-> FALSE, limit |-> limit,
                            current |-> RequestsLength(cleaned),
                            reason |-> "Rate limit exceeded"]]
        ELSE [limiters |-> [limiters EXCEPT ![tenantId] =
                               Limiter([cleaned EXCEPT ![t] = @ + 1], found.windowStart)],
              result   |-> [allowed |-> TRUE]]

\* cleanupExpiredSessions() at instant t: the map it leaves
cleanupExpiredSessions(limiters, t) ==
    [k \in DOMAIN limiters |->
        IF limiters[k].present /\ t - limiters[k].windowStart > cleanupAgeMs
        THEN NoLimiter ELSE limiters[k]]

\* what the limiter has done so far: calls and cleanups count the two
\* operations, tenant and result are those of the last checkRateLimit, and
\* admitted[k] counts, by instant, the requests of tenant k that were allowed
NoRateCall(limiters) ==
    [calls |-> 0, cleanups |-> 0, tenant |-> "", result |-> [allowed |-> TRUE],
     admitted |-> [k \in RateTenants |->
                     IF limiters[k].present THEN limiters[k].requests ELSE NoRequests]]

RateFrame ==
    UNCHANGED <<call, result, env, torExitNodes, lastUpdate, cache, req, analyses, torLookups, epoch,
                torCall, published, requestLogs, logDir, logCall,
                clientCache, clientStats, clientReq, vpnRanges, breaker, breakerCall>>

CheckRateLimitCall(k) ==
    /\ rateCall.calls < MaxRateCalls
    /\ LET checked == checkRateLimit(rateLimiters, k, requestsPerMinute, now) IN
       /\ rateLimiters' = checked.limiters
       /\ rateCall' = [rateCall EXCEPT
              !.calls = @ + 1, !.tenant = k, !.result = checked.result,
              !.admitted[k][now] = IF checked.result.allowed THEN @ + 1 ELSE @]
    /\ UNCHANGED now
    /\ RateFrame

\* the timer of cleanupExpiredSessions fires; its period is longer than the span
\* of RateTimes, so it fires once
CleanupTimerFires ==
    /\ rateCall.cleanups = 0
    /\ rateLimiters' = cleanupExpiredSessions(rateLimiters, now)
    /\ rateCall' = [rateCall EXCEPT !.cleanups = @ + 1]
    /\ UNCHANGED now
    /\ RateFrame

RateAdvanceClock ==
    /\ \E t \in RateTimes : t > now /\ now' = t
    /\ UNCHANGED <<rateLimiters, rateCall>>
    /\ RateFrame

InitRate ==
    /\ now = FirstRequestMs + cleanupAgeMs
    /\ rateLimiters \in [RateTenants -> RateStartLimiters]
    /\ rateCall = NoRateCall(rateLimiters)
    /\ breaker = <<>> /\ breakerCall = <<>>
    /\ call = [done |-> FALSE] /\ result = NoResult
    /\ env = [BLOCK_VPN_TOR |-> "true", STRICT_MODE |-> "false", IPAPI_KEY |-> "", ABUSEIPDB_KEY |-> ""]
    /\ torExitNodes = {} /\ lastUpdate = 0 /\ cache = <<>> /\ req = <<>>
    /\ analyses = 0 /\ torLookups = 0 /\ epoch = 0
    /\ torCall = <<>> /\ published = {}
    /\ requestLogs = <<>> /\ logDir = <<>> /\ logCall = <<>>
    /\ clientCache = <<>> /\ clientStats = <<>> /\ clientReq = <<>> /\ vpnRanges = {}

NextRate ==
    \/ \E k \in RateTenants : CheckRateLimitCall(k)
    \/ CleanupTimerFires
    \/ RateAdvanceClock

SpecRate == InitRate /\ [][NextRate]_vars

----------------------------------------------------------------------------
(* What the specification says of one analyzeIP call, in terms of its inputs *)

Threshold(e) == IF e.STRICT_MODE = "true" THEN 40 ELSE 70

PolicyOn(e) == e.BLOCK_VPN_TOR = "true"
VpnAnswered(e, c) == e.IPAPI_KEY # "" /\ c.vpn.status = "ok"
RepAnswered(e, c) == e.ABUSEIPDB_KEY # "" /\ c.rep.status = "ok"
VpnLookupFailed(e, c) == e.IPAPI_KEY = "" \/ c.vpn.status = "error"
RepLookupFailed(e, c) == e.ABUSEIPDB_KEY = "" \/ c.rep.status = "error"

GeoPoints(c) == IF GeoDB(c.ip).found /\ GeoDB(c.ip).country \in riskyCountries THEN 30 ELSE 0
TorPoints(e, c) == IF c.isTor /\ PolicyOn(e) THEN 80 ELSE 0
VpnPoints(e, c) ==
    IF VpnAnswered(e, c) /\ (c.vpn.proxy \/ c.vpn.hosting) /\ PolicyOn(e) THEN 60 ELSE 0
UAPoints(c) ==
    (IF Len(c.userAgent) < 10 THEN 20 ELSE 0)
    + (IF c.userAgent \in {"curl/7.0", "python-requests/2.31.0"} THEN 15 ELSE 0)
RepPoints(e, c) ==
    IF RepAnswered(e, c) /\ c.rep.abuseConfidencePercentage > 25
    THEN Min(c.rep.abuseConfidencePercentage, 50) ELSE 0

\* C1: every RiskAnalysis analyzeIP returns, the ANALYSIS_ERROR one included, has
\* isBlocked exactly when riskScore >= threshold, 40 in strict mode and 70 otherwise
C1_BlockedIffAtThreshold ==
    call.done => (result.isBlocked <=> result.riskScore >= Threshold(env))

\* a strict-mode block with a score that normal mode would have let through
C1_Witness ==
    /\ call.done /\ ~call.threw /\ env.STRICT_MODE = "true"
    /\ result.isBlocked /\ result.riskScore >= 40 /\ result.riskScore < 70

\* C2: the riskScore analyzeIP returns is an integer between 0 and 100
C2_ScoreInRange ==
    call.done => result.riskScore \in 0..100

\* the collectors added more than 100 points and the score returned is 100
C2_Witness ==
    /\ call.done /\ ~call.threw
    /\ GeoPoints(call) + TorPoints(env, call) + VpnPoints(env, call) + UAPoints(call) + RepPoints(env, call) > 100
    /\ result.riskScore = 100

\* C3: when an exception escapes the pipeline, analyzeIP returns the fail-closed
\* result: blocked, score 100, reason ANALYSIS_ERROR
C3_PipelineFailureFailsClosed ==
    (call.done /\ call.threw) =>
        /\ result.isBlocked = TRUE
        /\ result.riskScore = 100
        /\ result.reason = "ANALYSIS_ERROR"
        /\ result.ip = call.ip

\* the pipeline threw for a request that would otherwise have been allowed
C3_Witness ==
    /\ call.done /\ call.threw /\ result.reason = "ANALYSIS_ERROR"
    /\ GeoPoints(call) + TorPoints(env, call) + VpnPoints(env, call) + UAPoints(call) + RepPoints(env, call) = 0

\* C4: a collector whose lookup fails (rejected call, missing credential) adds 0,
\* keeps its performed flag false, leaves every other collector evaluated, and the
\* result is an ordinary decision, not ANALYSIS_ERROR
C4_CollectorFailureFailsOpen ==
    (call.done /\ ~call.threw) =>
        /\ result.reason # "ANALYSIS_ERROR"
        /\ "checks" \in DOMAIN result
        /\ VpnLookupFailed(env, call) =>
              /\ result.checks.vpn = FALSE
              /\ result.riskScore = Min(100, GeoPoints(call) + TorPoints(env, call) + UAPoints(call) + RepPoints(env, call))
        /\ RepLookupFailed(env, call) =>
              /\ result.checks.reputation = FALSE
              /\ result.riskScore = Min(100, GeoPoints(call) + TorPoints(env, call) + VpnPoints(env, call) + UAPoints(call))
        /\ (VpnLookupFailed(env, call) \/ RepLookupFailed(env, call)) =>
              /\ result.checks.geoip = GeoDB(call.ip).found
              /\ result.checks.tor = TRUE
              /\ result.checks.userAgent = TRUE
              /\ result.checks.vpn = VpnAnswered(env, call)
              /\ result.checks.reputation = RepAnswered(env, call)

\* the reputation call was rejected with a key configured, the VPN call answered
\* and scored, and the request was decided on the remaining signals
C4_Witness ==
    /\ call.done /\ ~call.threw
    /\ env.ABUSEIPDB_KEY # "" /\ call.rep.status = "error"
    /\ VpnPoints(env, call) = 60 /\ result.checks.vpn = TRUE
    /\ result.checks.reputation = FALSE
    /\ result.riskScore = 60

\* C5: the reason of a blocked decision made by makeBlockDecision is the first match
\* of: Tor flag (details.isTor) -> TOR_EXIT_NODE, VPN flag (details.vpnBlocked) ->
\* VPN_PROXY_DETECTED, reputation flag (details.badReputation) -> BAD_IP_REPUTATION,
\* otherwise HIGH_RISK_SCORE
C5_ReasonPriority ==
    (call.done /\ ~call.threw /\ result.isBlocked) =>
        result.reason =
            IF call.isTor THEN "TOR_EXIT_NODE"
            ELSE IF VpnPoints(env, call) > 0 THEN "VPN_PROXY_DETECTED"
            ELSE IF RepPoints(env, call) > 0 THEN "BAD_IP_REPUTATION"
            ELSE "HIGH_RISK_SCORE"

\* the Tor and the VPN signal both fired and the reason is TOR_EXIT_NODE
C5_Witness ==
    /\ call.done /\ ~call.threw /\ result.isBlocked
    /\ TorPoints(env, call) = 80 /\ VpnPoints(env, call) = 60
    /\ result.reason = "TOR_EXIT_NODE"

\* the analyzeIP call returned through its try block
Analysed == call.done /\ ~call.threw

\* C16: the riskScore of a non-error analysis is min(100, sum of what the five
\* collectors add for the request), each contribution counted once
C16_ScoreIsClampedSum ==
    Analysed =>
        result.riskScore =
            Min(100, GeoPoints(call) + TorPoints(env, call) + VpnPoints(env, call)
                     + UAPoints(call) + RepPoints(env, call))

\* Tor +80 and VPN +60 and nothing else: the sum is 140 and the score exactly 100
C16_Witness ==
    /\ Analysed
    /\ TorPoints(env, call) = 80 /\ VpnPoints(env, call) = 60
    /\ GeoPoints(call) = 0 /\ UAPoints(call) = 0 /\ RepPoints(env, call) = 0
    /\ result.riskScore = 100

\* C17: with BLOCK_VPN_TOR on, an address in the Tor set adds 80 and an address the
\* VPN lookup (credential configured) flags as proxy or hosting adds 60; with it
\* off, neither adds anything, whatever the lookups return
C17_PolicyGatesTorAndVpn ==
    Analysed =>
        LET others == GeoPoints(call) + UAPoints(call) + RepPoints(env, call)
            tor == IF call.isTor THEN 80 ELSE 0
            vpn == IF VpnAnswered(env, call) /\ (call.vpn.proxy \/ call.vpn.hosting) THEN 60 ELSE 0
        IN IF env.BLOCK_VPN_TOR = "true"
           THEN /\ result.riskScore = Min(100, others + tor + vpn)
                /\ Truthy(result.details, "torBlocked") <=> call.isTor
                /\ Truthy(result.details, "vpnBlocked") <=> vpn = 60
           ELSE /\ result.riskScore = Min(100, others)
                /\ ~Truthy(result.details, "torBlocked")
                /\ ~Truthy(result.details, "vpnBlocked")

\* policy off: a Tor exit node that the VPN lookup also flags scores 0 and passes
C17_Witness ==
    /\ Analysed /\ env.BLOCK_VPN_TOR = "false"
    /\ call.isTor /\ VpnAnswered(env, call) /\ call.vpn.proxy
    /\ result.riskScore = 0 /\ ~result.isBlocked

\* C18: an address in the Tor set, with BLOCK_VPN_TOR on and STRICT_MODE off, gets
\* riskScore >= 80, isBlocked and the reason TOR_EXIT_NODE, whatever else is found
C18_TorExitNodeBlocked ==
    (Analysed /\ call.isTor /\ env.BLOCK_VPN_TOR = "true" /\ env.STRICT_MODE = "false") =>
        /\ result.riskScore >= 80
        /\ result.isBlocked = TRUE
        /\ result.reason = "TOR_EXIT_NODE"

\* such an address with the VPN and the reputation signal firing as well
C18_Witness ==
    /\ Analysed /\ call.isTor /\ env.BLOCK_VPN_TOR = "true" /\ env.STRICT_MODE = "false"
    /\ VpnPoints(env, call) = 60 /\ RepPoints(env, call) = 50
    /\ result.reason = "TOR_EXIT_NODE" /\ result.isBlocked

\* C19: the reputation collector adds min(confidence, 50) when the confidence is
\* above 25, and 0 when it is at most 25 or no credential is configured; confidence
\* 90 with no other signal gives 50: blocked in strict mode, allowed in normal mode
C19_ReputationContribution ==
    Analysed =>
        LET others == GeoPoints(call) + TorPoints(env, call) + VpnPoints(env, call) + UAPoints(call)
            confidence == call.rep.abuseConfidencePercentage
            answered == env.ABUSEIPDB_KEY # "" /\ call.rep.status = "ok"
        IN /\ (answered /\ confidence > 25) =>
                 /\ result.riskScore = Min(100, others + Min(confidence, 50))
                 /\ Truthy(result.details, "badReputation")
           /\ (answered /\ confidence <= 25) =>
                 /\ result.riskScore = Min(100, others)
                 /\ ~Truthy(result.details, "badReputation")
           /\ env.ABUSEIPDB_KEY = "" =>
                 /\ result.riskScore = Min(100, others)
                 /\ ~Truthy(result.details, "badReputation")
           /\ (answered /\ confidence = 90 /\ others = 0) =>
                 /\ result.riskScore = 50
                 /\ result.isBlocked <=> env.STRICT_MODE = "true"

\* confidence 90 and no other signal in strict mode: score 50, blocked on reputation
C19_Witness ==
    /\ Analysed /\ env.ABUSEIPDB_KEY # "" /\ call.rep.status = "ok"
    /\ call.rep.abuseConfidencePercentage = 90
    /\ GeoPoints(call) + TorPoints(env, call) + VpnPoints(env, call) + UAPoints(call) = 0
    /\ env.STRICT_MODE = "true"
    /\ result.riskScore = 50 /\ result.isBlocked /\ result.reason = "BAD_IP_REPUTATION"

\* C20: every analysis analyzeIP returns carries a riskLevel that matches its
\* riskScore: LOW below 40, MEDIUM from 40 to 69, HIGH from 70
C20_RiskLevelMatchesScore ==
    call.done =>
        /\ "riskLevel" \in DOMAIN result.details
        /\ result.details.riskLevel =
               IF result.riskScore < 40 THEN "LOW"
               ELSE IF result.riskScore <= 69 THEN "MEDIUM"
               ELSE "HIGH"

----------------------------------------------------------------------------
(* What the specification says of the gate *)

Done == {r \in Requests : req[r].pc = "done"}
Hits == {r \in Done : req[r].hit}
Misses == {r \in Done : ~req[r].hit}
TTLms == stdTTL * 1000

\* the age, at r's lookup, of the cache entry the lookup met
Age(r) == req[r].arrivedAt - req[req[r].found].storedAt

\* the flights of two requests overlapped
Overlap(q, r) == (q < r /\ q \in req[r].inflight) \/ (r < q /\ r \in req[q].inflight)

\* C6: a request is never served a cached analysis computed for another
\* fingerprint: the writer of the entry it is served has its IP and its user agent
C6_CacheKeyedByFingerprint ==
    \A r \in Hits :
        /\ req[req[r].found].ip = req[r].ip
        /\ req[req[r].found].userAgent = req[r].userAgent

C8_HitServesStoredAnalysis ==
    [][\A r \in Requests :
          (req[r].pc = "idle" /\ req'[r].pc = "done") =>
              LET e == cache[cacheKey(req'[r].ip)] IN
              /\ e.present
              /\ req'[r].analysis = e.v
              /\ req'[r].response.riskScore = e.v.riskScore
              /\ (req'[r].response.status = 403) <=> e.v.isBlocked
              /\ analyses' = analyses /\ torLookups' = torLookups
              /\ torExitNodes' = torExitNodes /\ lastUpdate' = lastUpdate
              /\ cache' = cache]_vars

\* a hit served after the policy or the Tor set changed since the entry was written
C8_Witness ==
    \E r \in Hits : req[r].epoch > req[req[r].found].epoch

C10_ConcurrentMissesLastWriteWins ==
    /\ analyses = Cardinality(Misses)
    /\ \A k \in DOMAIN cache :
          LET writers == {r \in Misses : cacheKey(req[r].ip) = k} IN
          cache[k].present =>
              \E r \in writers :
                  /\ cache[k].v = req[r].analysis
                  /\ cache[k].t = req[r].storedAt + TTLms
                  /\ \A q \in writers : req[q].storedAt <= req[r].storedAt

\* two requests with one key missed together, differed, and the later write is kept
C10_Witness ==
    \E r1 \in Misses, r2 \in Misses :
        /\ r1 < r2 /\ req[r1].ip = req[r2].ip /\ r1 \in req[r2].inflight
        /\ req[r1].analysis # req[r2].analysis
        /\ req[r2].storedAt < req[r1].storedAt
        /\ analyses = 2
        /\ cache[cacheKey(req[r1].ip)].present
        /\ cache[cacheKey(req[r1].ip)].v = req[r1].analysis

----------------------------------------------------------------------------
(* What the specification says of TorService *)

\* the calls that ran a refresh to its end
Refreshed == {p \in TorCalls : torCall[p].pc = "done" /\ torCall[p].refreshed}

\* the attempt on a source failed: the request was rejected or its body did not parse
Failed(x) == x.status \in {"error", "garbled"}

OneHourMs == 60 * 60 * 1000

\* C11: a refresh tries the primary, then the secondary source, and stops at the
\* first success; when both fail the hardcoded set is used only if no snapshot was
\* ever loaded, and a snapshot that was loaded is left exactly as it was
C11_FallbackChain ==
    \A p \in Refreshed :
        LET c == torCall[p] IN
        /\ c.primary # NoAttempt
        /\ c.secondary # NoAttempt <=> Failed(c.primary)
        /\ (Failed(c.primary) /\ Failed(c.secondary)) =>
               IF c.before.lastUpdate = 0
               THEN c.after.nodes = knownExitNodes
               ELSE c.after.nodes = c.before.nodes

\* C12: after a refresh that a source answered with a list, the Tor set is exactly
\* that list, from the primary source or, the primary having failed, the secondary
C12_RefreshReplacesInFull ==
    \A p \in Refreshed :
        LET c == torCall[p] IN
        /\ c.primary.status = "ok" => c.after.nodes = c.primary.list
        /\ (Failed(c.primary) /\ c.secondary.status = "ok") => c.after.nodes = c.secondary.list

\* C13: at every point where a reader can run, between the steps of the refreshes in
\* progress, the Tor set is the set the last completed write left: a refresh that
\* has started and not finished has changed nothing a reader can see
C13_ReadersSeeCompleteSnapshot ==
    /\ torExitNodes = published
    /\ \A p \in TorCalls :
          torCall[p].pc \in {"primary", "secondary"} =>
              /\ ~torCall[p].answered
              /\ torCall[p].after = torCall[p].before

\* a call answered from a loaded set while a refresh was awaiting its source, and
\* that refresh then finished and changed the set
C13_Witness ==
    \E p \in TorCalls :
        /\ torCall[p].answered /\ ~torCall[p].refreshed
        /\ torCall[p].during # {} /\ torCall[p].seen # {}
        /\ torCall[p].answer = (torCall[p].ip \in torCall[p].seen)
        /\ Refreshing = {} /\ torExitNodes # torCall[p].seen

\* C14: isTorExitNode refreshes, and answers only once the refresh is over, exactly
\* when no snapshot was ever loaded or the snapshot is more than one hour old;
\* otherwise it sends no request, writes nothing and answers from the current set
C14_RefreshExactlyWhenStale ==
    \A p \in TorCalls :
        LET c == torCall[p]
            stale == c.atCall.lastUpdate = 0 \/ c.startedAt - c.atCall.lastUpdate > OneHourMs
        IN (c.pc # "idle" /\ c.kind = "isTorExitNode") =>
              /\ c.refreshed <=> stale
              /\ ~c.refreshed =>
                    /\ c.pc = "done" /\ c.answered
                    /\ c.primary = NoAttempt /\ c.secondary = NoAttempt
                    /\ c.after = c.atCall
                    /\ c.answer = (c.ip \in c.atCall.nodes)
              /\ c.refreshed =>
                    /\ c.answered <=> c.pc = "done"
                    /\ c.answered => (c.primary # NoAttempt /\ c.answer = (c.ip \in c.after.nodes))

\* one call on a snapshot exactly one hour old answered without a refresh, and a
\* call one millisecond later refreshed before it answered
C14_Witness ==
    \E p \in TorCalls, q \in TorCalls :
        /\ torCall[p].kind = "isTorExitNode" /\ torCall[p].pc = "done" /\ ~torCall[p].refreshed
        /\ torCall[p].startedAt - torCall[p].atCall.lastUpdate = OneHourMs
        /\ torCall[q].kind = "isTorExitNode" /\ torCall[q].pc = "done" /\ torCall[q].refreshed
        /\ torCall[q].startedAt - torCall[q].atCall.lastUpdate = OneHourMs + 1
        /\ torCall[q].primary.status = "ok" /\ torCall[q].answered

\* C15: every isTorExitNode call that has been made returns, and what it returns
\* is has(ip) on the set it found or left, whatever the two sources answered
C15_IsTorExitNodeReturns ==
    /\ \A p \in TorCalls :
          (torCall[p].pc # "idle") ~> (torCall[p].pc = "done")
    /\ [](\A p \in TorCalls :
             (torCall[p].pc = "done" /\ torCall[p].kind = "isTorExitNode") =>
                 /\ torCall[p].answered
                 /\ torCall[p].answer = (torCall[p].ip \in torCall[p].after.nodes))

\* a call returned although both sources were unreachable
C15_Witness ==
    \E p \in TorCalls :
        /\ torCall[p].kind = "isTorExitNode" /\ torCall[p].pc = "done" /\ torCall[p].answered
        /\ torCall[p].primary.status = "error" /\ torCall[p].secondary.status = "error"

----------------------------------------------------------------------------
(* What the specification says of the decision's fields *)

\* the reason codes makeBlockDecision and the catch block of analyzeIP assign
BlockReasons == {"TOR_EXIT_NODE", "VPN_PROXY_DETECTED", "BAD_IP_REPUTATION", "HIGH_RISK_SCORE",
                 "ANALYSIS_ERROR"}

\* C21: a blocked decision carries a reason of the fixed enumeration and its score,
\* and the 403 response shows that reason and that score; an allowed decision
\* carries its score and its details and no reason, and the 418 response shows that
\* score and those details and no reason
C21_DecisionFields ==
    \A r \in Done :
        LET a == req[r].analysis
            p == req[r].response
        IN /\ a.isBlocked =>
                /\ a.reason \in BlockReasons
                /\ a.riskScore \in 0..100
                /\ p.status = 403 /\ p.blocked
                /\ p.reason = a.reason /\ p.riskScore = a.riskScore
                /\ "details" \notin DOMAIN p
           /\ ~a.isBlocked =>
                /\ a.reason = Null
                /\ a.riskScore \in 0..100
                /\ p.status = 418 /\ p.allowed
                /\ p.riskScore = a.riskScore
                /\ "details" \in DOMAIN p /\ p.details = a.details
                /\ "reason" \notin DOMAIN p

\* one request blocked as a Tor exit node and one allowed with its country among
\* the details, both answered
C21_Witness ==
    \E q \in Done, r \in Done :
        /\ req[q].response.status = 403 /\ req[q].response.reason = "TOR_EXIT_NODE"
        /\ req[r].response.status = 418 /\ "country" \in DOMAIN req[r].response.details
        /\ req[r].response.riskScore > 0

----------------------------------------------------------------------------
(* What the specification says of the request log *)

\* a step that is a logRequest call, a firing of the timer
LogRequestStep == logCall'.op = "logRequest" /\ logCall'.requests = logCall.requests + 1
TimerStep == logCall'.op = "timer" /\ now' = now + flushInterval

\* the entries of the day's file as the flush of this step read them
DurableBefore == ReadLogFile(logDir, today(now'))

C23_BufferWithinCap == LogLength(requestLogs) <= maxLogsInMemory

\* the entries logged by the requests of the model, by requestId
LoggedIds == 1..MaxLogRequests
InBuffer(k) == \E i \in 1..Len(requestLogs) : requestLogs[i].entry.requestId = k
OnDisk(k) ==
    \E day \in LogDays : \E i \in 1..Len(logDir[day].logs) : logDir[day].logs[i].entry.requestId = k

C25_LogFailuresContained ==
    [][/\ LogRequestStep =>
            /\ ~logCall'.threw
            /\ logCall'.response.status = (IF logCall'.analysis.isBlocked THEN 403 ELSE 418)
            /\ logCall'.response.riskScore = logCall'.analysis.riskScore
       /\ (LogRequestStep /\ logCall'.flush = "failed") =>
            /\ logDir' = logDir
            /\ Len(requestLogs') = Len(requestLogs) + 1
            /\ SubSeq(requestLogs', 1, Len(requestLogs)) = requestLogs
            /\ requestLogs'[Len(requestLogs')].entry.requestId = logCall'.requests
       /\ TimerStep => ~logCall'.threw
       /\ (TimerStep /\ logCall'.flush = "failed") =>
            requestLogs' = requestLogs /\ logDir' = logDir]_vars

\* a blocked request was answered 403 although the flush its logRequest made could
\* neither read the day's file nor write it, and the 1000 entries are in the buffer
C25_Witness ==
    /\ logCall.op = "logRequest" /\ logCall.flush = "failed" /\ logCall.warned
    /\ logCall.response.status = 403 /\ logCall.analysis.isBlocked
    /\ LogLength(requestLogs) = maxLogsInMemory

\* the buffer and the current day's file together, as getStats finds them
LogUnion == ReadLogFile(logDir, today(now)) \o requestLogs

\* the entries of the last hour
WithinLastHour(logs) == SelectSeq(logs, LAMBDA x : TimeOf(x.entry.timestamp) > now - 3600000)

RECURSIVE SumOver(_, _)
\* the sum of a histogram's counts
SumOver(counts, keys) ==
    IF keys = {} THEN 0
    ELSE LET k == CHOOSE x \in keys : TRUE IN counts[k] + SumOver(counts, keys \ {k})

\* C26: getStats counts a sample of at most 1000 entries of the buffer and the
\* current day's file together, the most recent ones (whatever of the last hour
\* fits the sample is in it, and blocked entries of the last hour are counted as
\* such); the total is the blocked and the allowed together, the reason counts
\* add up to the blocked, the country counts to the total, and the last hour's
\* blocked are at most the last hour's total, which is at most the total
C26_StatsOverRecentSample ==
    logCall.op = "getStats" =>
        LET stats == logCall.stats IN
        /\ stats.totalRequests = Min(1000, LogLength(LogUnion))
        /\ stats.lastHour.total = Min(1000, LogLength(WithinLastHour(LogUnion)))
        /\ stats.totalRequests = stats.blockedRequests + stats.allowedRequests
        /\ SumOver(stats.topBlockReasons, DOMAIN stats.topBlockReasons) = stats.blockedRequests
        /\ SumOver(stats.topCountries, DOMAIN stats.topCountries) = stats.totalRequests
        /\ stats.lastHour.blocked <= stats.lastHour.total
        /\ stats.lastHour.total <= stats.totalRequests
        /\ stats.blockedRequests <= LogLength(SelectSeq(LogUnion, LAMBDA x : x.entry.blocked))

\* getStats was called with more than 1000 entries in the buffer and the day's
\* file together, some of them blocked and some, not all, of the last hour
C26_Witness ==
    /\ logCall.op = "getStats"
    /\ LogLength(LogUnion) > 1000
    /\ logCall.stats.totalRequests = 1000
    /\ logCall.stats.blockedRequests > 0
    /\ logCall.stats.lastHour.total > 0
    /\ logCall.stats.lastHour.total < logCall.stats.totalRequests
    /\ Cardinality(DOMAIN logCall.stats.topCountries) > 1

----------------------------------------------------------------------------
(* What the specification says of the bulk analysis API *)

\* C27: a bulk call whose ips is no array, an empty array or an array of more than
\* 100 addresses is answered with an error and analyses nothing; a call with 1 to
\* 100 addresses is answered with one result per address, in the order given
C27_BulkCap ==
    call.done =>
        LET ips == call.body.ips IN
        IF call.body.type # "array" \/ Len(ips) = 0 \/ Len(ips) > 100
        THEN /\ result.status = 400
             /\ "data" \notin DOMAIN result
             /\ analyses = 0
        ELSE /\ result.status = 200 /\ result.success
             /\ Len(result.data) = Len(ips)
             /\ \A i \in 1..Len(ips) : result.data[i].ip = ips[i]
             /\ analyses = Len(ips)

\* a call with exactly 100 addresses was answered with 100 results, one with 101
\* would not be
C27_Witness ==
    /\ call.done /\ call.body.type = "array" /\ Len(call.body.ips) = 100
    /\ result.status = 200 /\ Len(result.data) = 100
    /\ \E i \in 1..100 : result.data[i].isBlocked

----------------------------------------------------------------------------
(* What the specification says of the background refresh *)

\* C28: a loaded Tor snapshot that has become stale is eventually refreshed,
\* whether or not a request arrives
C28_StaleSnapshotEventuallyRefreshed ==
    (lastUpdate # 0 /\ TorStale(Tor, now)) ~> ~TorStale(Tor, now)

----------------------------------------------------------------------------
(* What the documentation says of the verify endpoint *)

\* C29: /verify, which is the middleware, answers an analysed request with 200
\* when it is allowed and with 403 when it is blocked
C29_VerifyAnswers200Or403 ==
    \A r \in Done : req[r].response.status = (IF req[r].analysis.isBlocked THEN 403 ELSE 200)

----------------------------------------------------------------------------
(* What the integration example says of its middleware *)

ClientDone == {r \in ClientRequests : clientReq[r].pc = "done"}

\* C30: a request whose check with the Guardian service failed (every attempt was
\* rejected or came back without success) is passed on with next(); every request
\* is answered either with next() or with a 403, and with a 403 only on an
\* analysis, obtained from the service or from the cache, whose isBlocked is true
C30_ClientFailSafe ==
    \A r \in ClientDone :
        /\ clientReq[r].sent \in {"next", "403"}
        /\ clientReq[r].failed => (clientReq[r].sent = "next" /\ clientReq[r].posts = retries)
        /\ clientReq[r].sent = "403" =>
              /\ ~clientReq[r].failed
              /\ clientReq[r].obtained # Undefined
              /\ clientReq[r].obtained.isBlocked

\* one request was passed on after both its attempts were rejected, and another
\* was answered 403 on a blocked analysis
C30_Witness ==
    \E q \in ClientDone, r \in ClientDone :
        /\ clientReq[q].failed /\ clientReq[q].lastError /\ clientReq[q].posts = retries
        /\ clientReq[q].sent = "next"
        /\ clientReq[r].sent = "403" /\ clientReq[r].obtained.isBlocked

----------------------------------------------------------------------------
(* What the specification says of the gate's data flow *)

\* C31: a request evaluated on a cache miss has stored its decision in the cache
\* when logRequest is called and has exactly one entry in the log (buffer and
\* files) when its response is sent, and keeps exactly one; a request served from
\* the cache has none; so getStats counts the entries logged before and one entry
\* for each miss answered, up to the 1000 entries it asks getRecentLogs for
C31_MissCachedThenLoggedOnce ==
    /\ \A r \in Misses :
          /\ req[r].cachedAtLog
          /\ req[r].loggedAtResponse = 1
          /\ Logged(requestLogs, logDir, r) = 1
    /\ \A r \in Requests \ Misses : Logged(requestLogs, logDir, r) = 0
    /\ getStats(requestLogs, logDir, now).totalRequests =
          Min((maxLogsInMemory - 2) + Cardinality(Misses), 1000)

\* a miss and, after it, a hit of the same client have been answered
C31_Witness ==
    \E q \in Misses, r \in Hits :
        /\ req[r].found = q
        /\ Logged(requestLogs, logDir, q) = 1
        /\ Logged(requestLogs, logDir, r) = 0

----------------------------------------------------------------------------
(* What the specification says of the reason under the Tor/VPN policy *)

\* C32: with BLOCK_VPN_TOR off, no blocked decision of the pipeline has the reason
\* TOR_EXIT_NODE or VPN_PROXY_DETECTED
C32_GatedOffSignalNotTheReason ==
    (Analysed /\ env.BLOCK_VPN_TOR # "true" /\ result.isBlocked) =>
        result.reason \notin {"TOR_EXIT_NODE", "VPN_PROXY_DETECTED"}

----------------------------------------------------------------------------
(* What the specification says of a failed analysis in the cache *)

\* C33: the ANALYSIS_ERROR result of a failed pipeline is stored in the cache under
\* the request's key for the TTL like any other decision, and a request that looks
\* that key up while the entry's age is within the TTL is answered 403 with the
\* stored ANALYSIS_ERROR decision, no analysis being run for it
C33_AnalysisErrorIsCached ==
    [][\A r \in Requests :
          /\ (req[r].pc = "analyze" /\ req'[r].pc = "done"
                 /\ req'[r].analysis.reason = "ANALYSIS_ERROR") =>
                LET stored == cache'[cacheKey(req[r].ip)] IN
                /\ stored.present
                /\ stored.v = req'[r].analysis
                /\ stored.v.isBlocked
                /\ stored.t = now + TTLms
          /\ (req[r].pc = "idle" /\ req'[r].pc # "idle") =>
                LET met == cache[cacheKey(req'[r].ip)] IN
                (met.present /\ met.v.reason = "ANALYSIS_ERROR"
                    /\ now - req[met.by].storedAt <= TTLms) =>
                       /\ req'[r].pc = "done" /\ req'[r].hit
                       /\ req'[r].analysis = met.v
                       /\ req'[r].response =
                              [status |-> 403, blocked |-> TRUE, reason |-> "ANALYSIS_ERROR",
                               riskScore |-> 100]
                       /\ analyses' = analyses /\ torLookups' = torLookups]_vars

\* a request was answered from an ANALYSIS_ERROR entry 299 s old or older, stored
\* for a request of the same address with another user agent
C33_Witness ==
    \E r \in Hits :
        /\ req[req[r].found].analysis.reason = "ANALYSIS_ERROR"
        /\ req[r].analysis.reason = "ANALYSIS_ERROR"
        /\ req[r].response.status = 403
        /\ Age(r) >= 299000
        /\ req[r].userAgent # req[req[r].found].userAgent

----------------------------------------------------------------------------
(* What the specification says of the persisted layout *)

\* C34: no step removes or overwrites an entry a day's file holds, whatever the
\* state of the file: each file holds afterwards what it held before, followed, in
\* the current day's file after a flush that wrote, by the flushed buffer
C34_FlushAppendsOnly ==
    [][\A day \in LogDays :
          LET before == logDir[day].logs
              after == logDir'[day].logs
          IN /\ Len(after) >= Len(before)
             /\ SubSeq(after, 1, Len(before)) = before
             /\ ((LogRequestStep \/ TimerStep) /\ logCall'.flush = "written" /\ day = today(now')) =>
                   LogLength(after) = LogLength(before) + LogLength(requestLogs)
                                      + (IF LogRequestStep THEN 1 ELSE 0)]_vars

----------------------------------------------------------------------------
(* What the specification says of the log under concurrent calls *)

\* the entries in the buffer and in the files of the log directory together
AllRecords ==
    LET InFiles[d \in LogDays \cup {-1}] ==
            IF d = -1 THEN 0 ELSE InFiles[d - 1] + LogLength(logDir[d].logs)
    IN LogLength(requestLogs) + InFiles[1]

\* the entries of request k in the buffer and in the files together
RecordsOf(k) ==
    LET InFiles[d \in LogDays \cup {-1}] ==
            IF d = -1 THEN 0 ELSE InFiles[d - 1] + EntriesOf(logDir[d].logs, k)
    IN EntriesOf(requestLogs, k) + InFiles[1]

\* C35: whatever the order of logRequest calls, cap-triggered flushes and timer
\* firings, every logged entry is exactly once in the buffer and the files
\* together: a logRequest call adds one entry, no other step adds or removes one,
\* and getStats counts no more entries than there are
C35_EveryRecordExactlyOnce ==
    /\ [][AllRecords' = AllRecords + (IF LogRequestStep THEN 1 ELSE 0)]_vars
    /\ [](\A k \in LoggedIds : RecordsOf(k) = (IF k <= logCall.requests THEN 1 ELSE 0))
    /\ [](logCall.op = "getStats" => logCall.stats.totalRequests <= AllRecords)

----------------------------------------------------------------------------
(* What the specification says of the refresh's timestamp *)

\* C36: a call of updateTorExitNodes that completes, on whichever step of the
\* chain, leaves lastUpdate at the time of its completion; so an isTorExitNode
\* call made with no other call under way, within one refresh interval of the
\* start of a refresh that has completed, starts no refresh
C36_CompletedRefreshStampsLastUpdate ==
    [][\A p \in TorCalls :
          /\ (torCall[p].pc \in {"primary", "secondary"} /\ torCall'[p].pc = "done") =>
                lastUpdate' = now
          /\ (/\ torCall[p].pc = "idle" /\ torCall'[p].pc # "idle"
              /\ torCall'[p].kind = "isTorExitNode"
              /\ Refreshing = {}
              /\ \E q \in TorCalls :
                    /\ torCall[q].pc = "done" /\ torCall[q].refreshed
                    /\ now - torCall[q].startedAt <= updateInterval) =>
                ~torCall'[p].refreshed]_vars

----------------------------------------------------------------------------
(* What the specification says of the VPN ranges *)

\* C37: the set of VPN ranges is what the one load at start-up left and no call
\* changes it; whatever it holds (nothing, after a failed load, or ranges that
\* cover the client's address), the analysis is the one the request, the policy
\* and the lookups' answers determine: score, decision, reason and VPN details
C37_VpnRangesInfluenceNothing ==
    /\ [][vpnRanges' = vpnRanges]_vars
    /\ [](vpnRanges \in {{}} \cup VpnRangeLists)
    /\ [](Analysed =>
            LET points == GeoPoints(call) + TorPoints(env, call) + VpnPoints(env, call)
                          + UAPoints(call) + RepPoints(env, call)
            IN /\ result.riskScore = Min(100, points)
               /\ result.isBlocked <=> Min(100, points) >= Threshold(env)
               /\ Truthy(result.details, "vpnBlocked") <=> VpnPoints(env, call) = 60
               /\ result.checks.vpn <=> VpnAnswered(env, call)
               /\ result.isBlocked =>
                     result.reason = (IF call.isTor THEN "TOR_EXIT_NODE"
                                      ELSE IF VpnPoints(env, call) = 60 THEN "VPN_PROXY_DETECTED"
                                      ELSE IF Truthy(result.details, "badReputation") THEN "BAD_IP_REPUTATION"
                                      ELSE "HIGH_RISK_SCORE"))

\* with the policy on, a client whose address is in a loaded range, and whom no
\* lookup flags, scores 0 and passes
C37_Witness ==
    /\ Analysed
    /\ env.BLOCK_VPN_TOR = "true"
    /\ call.ip = "185.220.101.1" /\ "185.220.101.0/24" \in vpnRanges
    /\ ~call.isTor /\ ~VpnAnswered(env, call)
    /\ result.riskScore = 0 /\ ~result.isBlocked
    /\ ~Truthy(result.details, "vpnBlocked")

----------------------------------------------------------------------------
(* What the specification says of the circuit breaker *)

\* a step in which call p enters execute, in which fn settles for call p
ExecStarts(p) == breakerCall[p].pc = "idle" /\ breakerCall'[p].pc # "idle"
ExecSettles(p) == breakerCall[p].pc = "running" /\ breakerCall'[p].pc = "done"

\* C38: an execute call that finds the breaker OPEN no more than resetTimeout
\* after its last failure is rejected, fn is not invoked and the breaker is left
\* as it is; one that finds it OPEN later than that moves it to HALF_OPEN and
\* invokes fn; a call whose fn resolves while the breaker is HALF_OPEN leaves it
\* CLOSED with failures 0
C38_OpenRejectsThenHalfOpenThenClosed ==
    [][\A p \in ExecCalls :
          /\ (ExecStarts(p) /\ breaker.state = "OPEN"
                 /\ now - breaker.lastFailureTime <= resetTimeout) =>
                /\ ~breakerCall'[p].invoked
                /\ breakerCall'[p].outcome = "rejected"
                /\ breaker' = breaker
          /\ (ExecStarts(p) /\ breaker.state = "OPEN"
                 /\ now - breaker.lastFailureTime > resetTimeout) =>
                /\ breaker'.state = "HALF_OPEN"
                /\ breakerCall'[p].invoked
          /\ (ExecSettles(p) /\ breaker.state = "HALF_OPEN"
                 /\ breakerCall'[p].outcome = "returned") =>
                /\ breaker'.state = "CLOSED"
                /\ breaker'.failures = 0]_vars

\* a call was rejected exactly resetTimeout after the failure that opened the
\* breaker, the next made the trial 1 ms later, and its success closed the breaker
C38_Witness ==
    \E p \in ExecCalls, q \in ExecCalls :
        /\ breakerCall[p].outcome = "rejected" /\ breakerCall[p].startedAt = 1000 + resetTimeout
        /\ breakerCall[q].trial /\ breakerCall[q].startedAt = 1001 + resetTimeout
        /\ breakerCall[q].outcome = "returned"
        /\ breaker.state = "CLOSED" /\ breaker.failures = 0

\* C39: a trial call that fails while the breaker is HALF_OPEN leaves it OPEN, and
\* no call that enters execute within resetTimeout of that failure invokes fn
C39_FailedTrialReopens ==
    [][\A p \in ExecCalls :
          /\ (ExecSettles(p) /\ breaker.state = "HALF_OPEN" /\ breakerCall[p].trial
                 /\ breakerCall'[p].outcome = "threw") =>
                breaker'.state = "OPEN"
          /\ (ExecStarts(p)
                 /\ \E q \in ExecCalls :
                       /\ breakerCall[q].trial /\ breakerCall[q].outcome = "threw"
                       /\ now - breakerCall[q].settledAt <= resetTimeout) =>
                ~breakerCall'[p].invoked]_vars

----------------------------------------------------------------------------
(* What the specification says of the tenant rate limiter *)

\* the requests of tenant k that were allowed in the 60 s that end at instant t
\* (from t - windowMs, exclusive, to t, inclusive)
AdmittedInWindow(k, t) ==
    CountOver(rateCall.admitted[k], {x \in RateStamps : x <= t /\ t - x < windowMs})

\* C40: no tenant has more than limit requests allowed within 60 s, and a
\* checkRateLimit call made when limit requests of its tenant were allowed in the
\* last 60 s returns allowed = false
C40_AtMostLimitPerWindow ==
    /\ [](\A k \in RateTenants, t \in RateTimes : AdmittedInWindow(k, t) <= requestsPerMinute)
    /\ [][\A k \in RateTenants :
            (rateCall'.calls = rateCall.calls + 1 /\ rateCall'.tenant = k
               /\ AdmittedInWindow(k, now) >= requestsPerMinute) =>
              ~rateCall'.result.allowed]_vars

====
